---- MODULE Spec2Model ----
(***************************************************************************)
(* Model of the auto-fill engine of src/src/main.js: the AutoFillManager   *)
(* supervisory loop, its protection timer and damage checks, and the       *)
(* suspensions of PixelPlacer.placeChunk the tasks of the manager go       *)
(* through (Spec); analyzeSituation as a function (SpecAnalyze); one main  *)
(* loop with every step of placeChunk, the wrappers on unsafeWindow.fetch  *)
(* and the cached request context (SpecPlace); waitForCharges with its     *)
(* clock (SpecWait); calculateWaitTime, getOwnedColorsFromBitmap and the   *)
(* colour classifier as functions (SpecPure); getNextPixels, the template   *)
(* diff with edge detection and ordering (SpecPixels).  Further:           *)
(* SpecPlaceFair, SpecPlace under the fairness of the event loop;          *)
(* SpecWaitSteady, waitForCharges with charges that regenerate at the      *)
(* reported rate; SpecProtect, protection left on and never stopped;       *)
(* SpecSession, two diffs with a placement between them; SpecMenu, one     *)
(* placePixels call with the polling of openPaintMenu.                     *)
(*                                                                         *)
(* Scheduling.  The program runs on one JavaScript event loop.  A handler  *)
(* or an async function runs without interruption until it suspends on a   *)
(* promise that only a later event settles (a timer, a network response,   *)
(* a DOM poll).  One action of the model is one such run: it starts where  *)
(* a task resumes and ends at the next suspension.  Consecutive awaits     *)
(* between which the task writes nothing are one suspension.               *)
(*                                                                         *)
(* Environment.  What the page, the server and the user supply (charge     *)
(* data, the diff result, HTTP statuses, DOM readiness, elapsed time) is   *)
(* chosen with \E where the code reads it.                                 *)
(***************************************************************************)
EXTENDS Integers, Sequences, FiniteSets, TLC

\* ---- bounds of the model ----
MaxLoops == 2       \* runMainLoop instances alive at once
MaxChecks == 2      \* checkForDamage executions alive at once
MaxTimers == 2      \* protection intervals scheduled at once
MaxStarts == 1      \* start() calls suspended in refreshUserData at once
MaxP == 3           \* wrong pixels a diff reports
MaxCharge == 3      \* charges.max
Frac == 2           \* charge counts are multiples of 1/Frac
MaxWrappers == 2    \* fetch wrappers of interceptFetchRequest alive at once
MaxRetry == 2       \* 429 retries of one batch
MaxBatches == 2     \* chunk groups of one placePixels call
MaxToken == 2       \* distinct security tokens the page puts in a body
TickMs == 500       \* the steps in which a sleep of waitForCharges is seen to pass
WaitRecharge == 1000 \* charges.rechargeTime as the server reports it (SpecWait)
MaxBitmap == 20     \* extraColorsBitmap within MaxBitmap of 0 and of the int32 limits (SpecPure)
MaxCalls == 2       \* classifications through one colour cache (SpecPure)
MaxNear == 3        \* off-palette colours next to palette IDs 1..MaxNear (SpecPure)
GridW == 3          \* columns of the template (SpecPixels)
GridH == 3          \* rows of the template (SpecPixels)
MaxWrong == 3       \* wrong pixels of a partly painted canvas (SpecPixels)
MaxCount == 2       \* pixels getNextPixels is asked for (SpecPixels)

\* ---- program constants ----
RechargeTime == 30000
NoChargeRetry == 5000
PollSleep == 1000   \* waitForCharges: sleep(Math.min(1000, remaining))
RefreshEvery == 5   \* waitForCharges: iterations % 5 === 0

VARIABLES
    isRunning,                  \* state.isRunning
    mode,                       \* state.mode
    protectionInterval,         \* this.protectionInterval (0 = null)
    protectionCheckInProgress,
    protectionRepairInProgress,
    bmProtectMode,              \* window.bmProtectMode
    timers,                     \* intervals scheduled by setInterval and not cleared
    starting,                   \* start() calls suspended at await refreshUserData
    task,                       \* where each async task (main loop, damage check) is suspended
    job,                        \* the placeChunk call each task is in (SpecPlace)
    cachedRequestContext,       \* PixelPlacer.cachedRequestContext with its age (SpecPlace)
    windowFetch,                \* unsafeWindow.fetch: 0 = the page's own, else a wrapper (SpecPlace)
    wrapper,                    \* the closures of the interceptFetchRequest calls (SpecPlace)
    net,                        \* the request the last step handed to the network, if any
    an,                         \* inputs and result of analyzeSituation (SpecAnalyze)
    wt,                         \* the locals of a waitForCharges call, and its clock (SpecWait)
    ev                          \* the last operation taken (observer)

vars == <<isRunning, mode, protectionInterval, protectionCheckInProgress,
          protectionRepairInProgress, bmProtectMode, timers, starting, task,
          job, cachedRequestContext, windowFetch, wrapper, net, an, wt, ev>>

mgrVars == <<isRunning, mode, protectionInterval, protectionCheckInProgress,
             protectionRepairInProgress, timers>>
flagVars == <<protectionCheckInProgress, protectionRepairInProgress>>
timerVars == <<protectionInterval, timers>>
fetchVars == <<windowFetch, wrapper>>
placeVars == <<job, cachedRequestContext, windowFetch, wrapper>>

Min(a, b) == IF a <= b THEN a ELSE b

Loops == 1..MaxLoops
Checks == (MaxLoops + 1)..(MaxLoops + MaxChecks)
Tasks == 1..(MaxLoops + MaxChecks)
IsLoop(t) == t \in Loops

\* a task is the name of the suspension it is at; "idle" = not running, "off" = a
\* slot the run does not use
Idle == "idle"
Off == "off"

\* the task slots a run may use: two main loops, or one main loop and the checks
Scopes == {[loops |-> MaxLoops, checks |-> 0], [loops |-> 1, checks |-> MaxChecks]}
InScope(sc, t) ==
    IF IsLoop(t) THEN t <= sc.loops ELSE t - MaxLoops <= sc.checks

\* ---------------------------------------------------------------------
\* ChargeManager
\* ---------------------------------------------------------------------

\* parseInt(chargeLimitInput?.value || charges.max); input 0 stands for an empty value
chargeLimitOf(input, max) == IF input = 0 THEN max ELSE input

shouldWaitForCharges_strict(count, limit, pixelsNeeded) ==
    IF count > limit * Frac THEN FALSE ELSE pixelsNeeded > count \div Frac

shouldWaitForCharges(count, limit, pixelsNeeded) ==
    IF count >= limit * Frac THEN FALSE ELSE pixelsNeeded > count \div Frac

calculateWaitTime(count, limit, pixelsNeeded) ==
    LET currentCharges == count \div Frac
        targetCharges == Min(pixelsNeeded, limit)
        chargesNeeded == targetCharges - currentCharges
        partial == count % Frac
        timeForCurrentCharge == ((Frac - partial) * RechargeTime + Frac - 1) \div Frac
    IN  IF chargesNeeded <= 1
        THEN timeForCurrentCharge
        ELSE timeForCurrentCharge + (chargesNeeded - 1) * RechargeTime

\* ---------------------------------------------------------------------
\* AutoFillManager.analyzeSituation
\* ---------------------------------------------------------------------

\* getPixelsToPlace returned an array (no owned colours, or getNextPixels found no
\* template), whose totalRemainingPixels is undefined
NoResult == 0 - 1

\* getNextPixels(charges || 1, ...) schedules at most that many of the P wrong pixels
scheduledCount(count, P) ==
    LET c == count \div Frac IN Min(P, IF c = 0 THEN 1 ELSE c)

zeroPixelAction_swapped(protect, m) ==
    IF protect
    THEN (IF m = "PROTECTING" THEN "START_PROTECTION" ELSE "CONTINUE_PROTECTION")
    ELSE "COMPLETE"

zeroPixelAction(protect, m) ==
    IF protect
    THEN (IF m = "PROTECTING" THEN "CONTINUE_PROTECTION" ELSE "START_PROTECTION")
    ELSE "COMPLETE"

analyzeSituation(hasCharges, count, limit, P, protect, m) ==
    IF ~hasCharges
    THEN [action |-> "WAIT_FOR_CHARGES", waitTime |-> NoChargeRetry, scheduled |-> 0]
    ELSE IF P = 0
    THEN [action |-> zeroPixelAction(protect, m), waitTime |-> 0, scheduled |-> 0]
    ELSE IF P # NoResult /\ shouldWaitForCharges(count, limit, P)
    THEN [action |-> "WAIT_FOR_CHARGES", waitTime |-> calculateWaitTime(count, limit, P),
          scheduled |-> 0]
    ELSE [action |-> "PLACE_PIXELS", waitTime |-> 0,
          scheduled |-> IF P = NoResult THEN NoResult ELSE scheduledCount(count, P)]

\* ---------------------------------------------------------------------
\* Initial state: the manager as its constructor leaves it
\* ---------------------------------------------------------------------

\* no interceptFetchRequest closure in this slot
NoWrapper == [active |-> FALSE, trig |-> FALSE, orig |-> 0, cb |-> FALSE, batch |-> 0,
              owner |-> 0]
\* this.cachedRequestContext = null
NoContext == [token |-> 0, extra |-> FALSE, fresh |-> FALSE]
\* placeChunk as placePixels first calls it: chunk group 1 (i === 0), retryCount 0,
\* the slow path with the caching callback
FirstJob == [batch |-> 1, retry |-> 0, cb |-> TRUE, recap |-> FALSE, w |-> 0]
NoRequest == [via |-> "none", kind |-> "none", t |-> 0, batch |-> 0, extra |-> FALSE,
              fn |-> 0, fetchAtSend |-> 0]

NoAnalysis == [hasCharges |-> FALSE, count |-> 0, limit |-> 0, P |-> 0,
               protect |-> FALSE, mode |-> "IDLE", done |-> FALSE,
               action |-> "none", waitTime |-> 0, scheduled |-> 0]

\* no waitForCharges call is modelled
NoWait == [phase |-> "none", rem |-> 0, sleep |-> 0, slept |-> 0, chargeLimit |-> 0,
           change |-> "same", input |-> 0, count |-> 0, P |-> 0, iterations |-> 0]

InitManager ==
    /\ isRunning = FALSE
    /\ mode = "IDLE"
    /\ protectionInterval = 0
    /\ protectionCheckInProgress = FALSE
    /\ protectionRepairInProgress = FALSE
    /\ bmProtectMode = FALSE
    /\ timers = {}
    /\ starting = 0
    /\ cachedRequestContext = NoContext
    /\ windowFetch = 0
    /\ wrapper = [w \in 1..MaxWrappers |-> NoWrapper]
    /\ job = [t \in Tasks |-> FirstJob]
    /\ net = NoRequest
    /\ wt = NoWait

Init ==
    /\ InitManager
    /\ \E sc \in Scopes : task = [t \in Tasks |-> IF InScope(sc, t) THEN Idle ELSE Off]
    /\ an = NoAnalysis
    /\ ev = "init"

\* ---------------------------------------------------------------------
\* AutoFillManager: stop, start, protection toggle
\* ---------------------------------------------------------------------

clearProtectionMode ==
    IF protectionInterval # 0
    THEN /\ timers' = timers \ {protectionInterval}
         /\ protectionInterval' = 0
         /\ protectionCheckInProgress' = FALSE
         /\ protectionRepairInProgress' = FALSE
    ELSE UNCHANGED <<timers, protectionInterval, flagVars>>

stop_keepsMode ==
    /\ isRunning' = FALSE
    /\ mode' = mode
    /\ clearProtectionMode

stop ==
    /\ isRunning' = FALSE
    /\ mode' = "IDLE"
    /\ clearProtectionMode

\* the loop head of runMainLoop, reached with the given values of the two flags
LoopNext(run, repair) ==
    IF ~run THEN "idle" ELSE IF repair THEN "skipSleep" ELSE "analyzing"

FreeLoops == {l \in Loops : task[l] = "idle"}
FirstFree(S) == CHOOSE x \in S : \A y \in S : x <= y

startGuard_always(running) == FALSE

\* start(): "if (this.state.isRunning) return this.stop()"
startGuard(running) == running

\* button.onclick -> start(), up to its await of refreshUserData
StartClick ==
    \/ /\ startGuard(isRunning)
       /\ stop
       /\ ev' = "start:stop"
       /\ UNCHANGED <<bmProtectMode, starting, task, placeVars, an, wt>>
       /\ net' = NoRequest
    \/ /\ ~startGuard(isRunning)
       /\ \E valid \in BOOLEAN :
            IF valid
            THEN /\ starting < MaxStarts
                 /\ starting' = starting + 1
                 /\ ev' = IF isRunning THEN "start:await-running" ELSE "start:await"
            ELSE /\ starting' = starting
                 /\ ev' = "start:no-template"
       /\ UNCHANGED <<mgrVars, bmProtectMode, task, placeVars, an, wt>>
       /\ net' = NoRequest

\* start() after refreshUserData: isRunning = true, FILLING, runMainLoop()
StartResume ==
    /\ starting > 0
    /\ FreeLoops # {}
    /\ starting' = starting - 1
    /\ isRunning' = TRUE
    /\ mode' = "FILLING"
    /\ task' = [task EXCEPT ![FirstFree(FreeLoops)] =
                   LoopNext(TRUE, protectionRepairInProgress)]
    /\ ev' = "launch"
    /\ UNCHANGED <<timerVars, flagVars, bmProtectMode, placeVars, an, wt>>
    /\ net' = NoRequest

\* the protect button: stop() when the manager is PROTECTING, then toggle
ProtectClick ==
    /\ IF mode = "PROTECTING"
       THEN stop /\ ev' = "protect:stop"
       ELSE UNCHANGED mgrVars /\ ev' = "protect"
    /\ bmProtectMode' = ~bmProtectMode
    /\ UNCHANGED <<starting, task, placeVars, an, wt>>
    /\ net' = NoRequest

\* ---------------------------------------------------------------------
\* How a task leaves the code it runs
\* ---------------------------------------------------------------------

Thrown_endsLoop(t) == Idle

\* an exception reaches the catch of runMainLoop (which sleeps 10 s), or leaves
\* checkForDamage through its finally and the catch of the timer callback
Thrown(t) == IF IsLoop(t) THEN "errSleep" ELSE Idle

ThrownFlags(t) ==
    IF IsLoop(t)
    THEN UNCHANGED flagVars
    ELSE protectionCheckInProgress' = FALSE /\ protectionRepairInProgress' = FALSE

ThrowEvent(t) == IF t = 0 THEN "throw:none" ELSE IF IsLoop(t) THEN "throw:loop" ELSE "throw:check"

\* placePixels returned: the loop is at its head again; the repair waits its 10 s
\* for ghost pixels, clears protectionRepairInProgress in its finally and returns
\* to the timer callback, which clears protectionCheckInProgress
Returned(t) ==
    IF IsLoop(t) THEN LoopNext(isRunning, protectionRepairInProgress) ELSE Idle

ReturnedFlags_flagsKept(t) == UNCHANGED flagVars

ReturnedFlags(t) == ThrownFlags(t)

\* ---------------------------------------------------------------------
\* AutoFillManager.startProtectionMode / complete
\* ---------------------------------------------------------------------

FreeTimers == (1..MaxTimers) \ timers

\* setInterval(...) unless the mode is PROTECTING already
startProtectionMode ==
    IF mode = "PROTECTING"
    THEN UNCHANGED <<mode, timerVars>>
    ELSE /\ FreeTimers # {}
         /\ mode' = "PROTECTING"
         /\ protectionInterval' = FirstFree(FreeTimers)
         /\ timers' = timers \cup {FirstFree(FreeTimers)}

complete_staysRunning ==
    /\ isRunning' = isRunning
    /\ IF bmProtectMode
       THEN startProtectionMode
       ELSE mode' = "IDLE" /\ UNCHANGED timerVars

complete ==
    /\ isRunning' = FALSE
    /\ IF bmProtectMode
       THEN startProtectionMode
       ELSE mode' = "IDLE" /\ UNCHANGED timerVars

\* ---------------------------------------------------------------------
\* AutoFillManager.placePixels, up to its first suspension
\* ---------------------------------------------------------------------

\* after setState('FILLING'): placeChunk of the first chunk group opens the paint
\* menu; with isRunning false no chunk is placed
placePixelsTask == IF isRunning THEN "menuWait" ELSE "cycleSleep"

\* ---------------------------------------------------------------------
\* runMainLoop / executeCycle
\* ---------------------------------------------------------------------

LoopSleeps == {"skipSleep", "errSleep", "protSleep"}

\* sleep(5000) of a skipped cycle, sleep(10000) after an error, or the
\* CONTINUE_PROTECTION sleep is over: back to the loop head
LoopSleepDone(t) ==
    /\ IsLoop(t)
    /\ task[t] \in LoopSleeps
    /\ task' = [task EXCEPT ![t] = LoopNext(isRunning, protectionRepairInProgress)]
    /\ ev' = "wake"
    /\ UNCHANGED <<mgrVars, bmProtectMode, starting, placeVars, an, wt>>
    /\ net' = NoRequest

ChargeCounts == 0..(MaxCharge * Frac)
LimitInputs == 0..MaxCharge
DiffResults == NoResult..MaxP

\* what a cycle of the main loop may read: no charge data, or a charge count, a
\* limit input (empty or 1) and a diff result
CycleInputs ==
    {[hasCharges |-> FALSE, count |-> 0, input |-> 0, P |-> 0]}
    \cup [hasCharges : {TRUE}, count : ChargeCounts, input : {0, 1},
          P : {NoResult, 0, 1, MaxP}]

\* what analyzeSituation returns on them, with the toggle and the mode as they are
CycleResults ==
    {analyzeSituation(in.hasCharges, in.count, chargeLimitOf(in.input, MaxCharge),
                      in.P, bmProtectMode, mode) : in \in CycleInputs}

\* executeCycle once analyzeSituation has its data (refreshUserData and the diff
\* are over), up to the next suspension
Analyze(t) ==
    /\ IsLoop(t)
    /\ task[t] = "analyzing"
    /\ \E r \in CycleResults :
        \/ /\ r.action = "PLACE_PIXELS" /\ r.scheduled = NoResult
           \* placePixels(undefined): setState('FILLING'), then a TypeError
           /\ mode' = "FILLING"
           /\ task' = [task EXCEPT ![t] = Thrown(t)]
           /\ ev' = ThrowEvent(t)
           /\ UNCHANGED <<isRunning, timerVars, flagVars, cachedRequestContext>>
        \/ /\ r.action = "PLACE_PIXELS" /\ r.scheduled # NoResult
           /\ task' = [task EXCEPT ![t] = placePixelsTask]
           /\ mode' = "FILLING"
           /\ cachedRequestContext' = NoContext
           /\ ev' = "cycle:PLACE_PIXELS"
           /\ UNCHANGED <<isRunning, timerVars, flagVars>>
        \/ /\ r.action = "WAIT_FOR_CHARGES"
           \* waitForCharges: its loop is skipped when isRunning is false
           /\ mode' = "WAITING_CHARGES"
           /\ task' = [task EXCEPT ![t] =
                          IF isRunning THEN "waiting"
                          ELSE LoopNext(isRunning, protectionRepairInProgress)]
           /\ ev' = "cycle:WAIT_FOR_CHARGES"
           /\ UNCHANGED <<isRunning, timerVars, flagVars, cachedRequestContext>>
        \/ /\ r.action = "START_PROTECTION"
           /\ startProtectionMode
           /\ task' = [task EXCEPT ![t] =
                          LoopNext(isRunning, protectionRepairInProgress)]
           /\ ev' = "cycle:START_PROTECTION"
           /\ UNCHANGED <<isRunning, flagVars, cachedRequestContext>>
        \/ /\ r.action = "CONTINUE_PROTECTION"
           /\ task' = [task EXCEPT ![t] = "protSleep"]
           /\ ev' = "cycle:CONTINUE_PROTECTION"
           /\ UNCHANGED <<mgrVars, cachedRequestContext>>
        \/ /\ r.action = "COMPLETE"
           /\ complete
           /\ task' = [task EXCEPT ![t] =
                          LoopNext(isRunning', protectionRepairInProgress)]
           /\ ev' = "cycle:COMPLETE"
           /\ UNCHANGED <<flagVars, cachedRequestContext>>
    /\ UNCHANGED <<bmProtectMode, starting, job, fetchVars, an, wt>>
    /\ net' = NoRequest

\* waitForCharges after a sleep of at most 1 s: the deadline passed, isRunning
\* went false, the limit is reached, or it sleeps again
WaitPoll(t) ==
    /\ IsLoop(t)
    /\ task[t] = "waiting"
    /\ \E over \in BOOLEAN :
         task' = [task EXCEPT ![t] =
                     IF over \/ ~isRunning
                     THEN LoopNext(isRunning, protectionRepairInProgress)
                     ELSE "waiting"]
    /\ ev' = "poll"
    /\ UNCHANGED <<mgrVars, bmProtectMode, starting, placeVars, an, wt>>
    /\ net' = NoRequest

\* sleep(cycleDelay) at the end of placePixels is over
CycleSleepDone(t) ==
    /\ task[t] = "cycleSleep"
    /\ task' = [task EXCEPT ![t] = Returned(t)]
    /\ ReturnedFlags(t)
    /\ ev' = IF IsLoop(t) THEN "placed:loop" ELSE "placed:check"
    /\ UNCHANGED <<isRunning, mode, timerVars, bmProtectMode, starting, placeVars, an, wt>>
    /\ net' = NoRequest

\* ---------------------------------------------------------------------
\* PixelPlacer.placeChunk, as the tasks of the manager go through it
\* ---------------------------------------------------------------------
\* placeChunk reads and writes nothing of the manager's state.  The model keeps
\* its suspensions at which an interception is armed or a request is in flight;
\* whether a cached request context is still valid (set, and younger than
\* contextMaxAge) is the environment's choice.

\* after a chunk group: placeChunk for the next one (slow path, or fast path with
\* a valid cached context), or the end of placePixels; the for loop of placePixels
\* stops when isRunning is false
chunkDone ==
    IF isRunning THEN {"menuWait", "fastSending", "cycleSleep"} ELSE {"cycleSleep"}

\* openPaintMenu is over: placePixelsWithInterceptor arms interceptFetchRequest, or
\* the paint button or the map canvas was not found and the call throws
OpenPaintMenuDone(t) ==
    /\ task[t] = "menuWait"
    /\ \E found \in BOOLEAN :
         IF found
         THEN /\ task' = [task EXCEPT ![t] = "intercepting"]
              /\ ev' = "arm"
              /\ UNCHANGED flagVars
         ELSE /\ task' = [task EXCEPT ![t] = Thrown(t)]
              /\ ThrownFlags(t)
              /\ ev' = ThrowEvent(t)
    /\ UNCHANGED <<isRunning, mode, timerVars, bmProtectMode, starting, placeVars, an, wt>>
    /\ net' = NoRequest

\* the armed interception settles: the wrapper captures a placement POST and sends
\* its substitute, or it rejects (no token in the body, triggerAction failed)
Intercepted(t) ==
    /\ task[t] = "intercepting"
    /\ \E captured \in BOOLEAN :
         IF captured
         THEN /\ task' = [task EXCEPT ![t] = "sending"]
              /\ ev' = "post"
              /\ UNCHANGED flagVars
         ELSE /\ task' = [task EXCEPT ![t] = Thrown(t)]
              /\ ThrownFlags(t)
              /\ ev' = ThrowEvent(t)
    /\ UNCHANGED <<isRunning, mode, timerVars, bmProtectMode, starting, placeVars, an, wt>>
    /\ net' = NoRequest

Statuses == {"ok", "429", "fail"}
FastStatuses == {"ok", "429", "auth", "fail"}

\* the substitute request of the slow path is answered (any status but 429 is
\* returned as the result) or fails
Sending(t) ==
    /\ task[t] = "sending"
    /\ \E status \in Statuses :
         \/ /\ status = "ok"
            /\ \E nxt \in chunkDone : task' = [task EXCEPT ![t] = nxt]
            /\ ev' = "chunk"
            /\ UNCHANGED flagVars
         \/ /\ status = "429"
            /\ task' = [task EXCEPT ![t] = "backoff"]
            /\ ev' = "backoff"
            /\ UNCHANGED flagVars
         \/ /\ status = "fail"
            /\ task' = [task EXCEPT ![t] = Thrown(t)]
            /\ ThrownFlags(t)
            /\ ev' = ThrowEvent(t)
    /\ UNCHANGED <<isRunning, mode, timerVars, bmProtectMode, starting, placeVars, an, wt>>
    /\ net' = NoRequest

\* 30 s after a 429 on the slow path: placePixelsWithInterceptor again, without
\* openPaintMenu; triggerAction throws at once when the map canvas is missing
Backoff(t) ==
    /\ task[t] = "backoff"
    /\ \E canvas \in BOOLEAN :
         IF canvas
         THEN /\ task' = [task EXCEPT ![t] = "intercepting"]
              /\ ev' = "rearm"
              /\ UNCHANGED flagVars
         ELSE /\ task' = [task EXCEPT ![t] = Thrown(t)]
              /\ ThrownFlags(t)
              /\ ev' = ThrowEvent(t)
    /\ UNCHANGED <<isRunning, mode, timerVars, bmProtectMode, starting, placeVars, an, wt>>
    /\ net' = NoRequest

\* the request of the fast path (placePixelsWithCachedContext) is answered or fails;
\* 401/403 sends placeChunk to openPaintMenu and the slow path
FastSending(t) ==
    /\ task[t] = "fastSending"
    /\ \E status \in FastStatuses :
         \/ /\ status = "ok"
            /\ \E nxt \in chunkDone : task' = [task EXCEPT ![t] = nxt]
            /\ ev' = "chunk"
            /\ UNCHANGED flagVars
         \/ /\ status = "429"
            /\ task' = [task EXCEPT ![t] = "fastBackoff"]
            /\ ev' = "backoff"
            /\ UNCHANGED flagVars
         \/ /\ status = "auth"
            /\ task' = [task EXCEPT ![t] = "menuWait"]
            /\ ev' = "fallback"
            /\ UNCHANGED flagVars
         \/ /\ status = "fail"
            /\ task' = [task EXCEPT ![t] = Thrown(t)]
            /\ ThrownFlags(t)
            /\ ev' = ThrowEvent(t)
    /\ UNCHANGED <<isRunning, mode, timerVars, bmProtectMode, starting, placeVars, an, wt>>
    /\ net' = NoRequest

\* 30 s after a 429 on the fast path: placePixelsWithCachedContext again, which
\* sends if the context is still valid and otherwise throws 'No valid cached
\* request context', the fallback of placeChunk
FastBackoff(t) ==
    /\ task[t] = "fastBackoff"
    /\ \E valid \in BOOLEAN :
         /\ task' = [task EXCEPT ![t] = IF valid THEN "fastSending" ELSE "menuWait"]
         /\ ev' = IF valid THEN "retry" ELSE "fallback"
    /\ UNCHANGED <<mgrVars, bmProtectMode, starting, placeVars, an, wt>>
    /\ net' = NoRequest

\* ---------------------------------------------------------------------
\* The protection timer and checkForDamage
\* ---------------------------------------------------------------------

FreeChecks == {c \in Checks : task[c] = "idle"}

\* a tick of a scheduled interval: with the mode PROTECTING and no check in
\* progress the callback sets the guard flag and runs checkForDamage up to its diff
Tick(i) ==
    /\ i \in timers
    /\ mode = "PROTECTING" /\ ~protectionCheckInProgress
    /\ FreeChecks # {}
    /\ protectionCheckInProgress' = TRUE
    /\ task' = [task EXCEPT ![FirstFree(FreeChecks)] = "chkDiff"]
    /\ ev' = "tick"
    /\ UNCHANGED <<isRunning, mode, timerVars, protectionRepairInProgress,
                   bmProtectMode, starting, placeVars, an, wt>>
    /\ net' = NoRequest

\* checkForDamage has its diff: intact (return, and the callback clears the guard
\* flag), or damaged (set protectionRepairInProgress and go on to the repair)
CheckDiff(t) ==
    /\ task[t] = "chkDiff"
    /\ \E damaged \in BOOLEAN :
         IF damaged
         THEN /\ task' = [task EXCEPT ![t] = "chkRepair"]
              /\ protectionRepairInProgress' = TRUE
              /\ ev' = "check:damaged"
              /\ UNCHANGED protectionCheckInProgress
         ELSE /\ task' = [task EXCEPT ![t] = Idle]
              /\ protectionCheckInProgress' = FALSE
              /\ ev' = "check:intact"
              /\ UNCHANGED protectionRepairInProgress
    /\ UNCHANGED <<isRunning, mode, timerVars, bmProtectMode, starting, placeVars, an, wt>>
    /\ net' = NoRequest

\* the repair after its protection delay, re-check and refreshUserData: nothing to
\* place (repaired by others, no charges, no pixels), or placePixels
CheckRepair(t) ==
    /\ task[t] = "chkRepair"
    /\ \E place \in BOOLEAN :
         IF place
         THEN /\ task' = [task EXCEPT ![t] = placePixelsTask]
              /\ mode' = "FILLING"
              /\ cachedRequestContext' = NoContext
              /\ ev' = "check:repair"
              /\ UNCHANGED flagVars
         ELSE /\ task' = [task EXCEPT ![t] = Idle]
              /\ protectionCheckInProgress' = FALSE
              /\ protectionRepairInProgress' = FALSE
              /\ ev' = "check:norepair"
              /\ UNCHANGED <<mode, cachedRequestContext>>
    /\ UNCHANGED <<isRunning, timerVars, bmProtectMode, starting, job, fetchVars, an, wt>>
    /\ net' = NoRequest

Next ==
    \/ StartClick
    \/ StartResume
    \/ ProtectClick
    \/ \E t \in Tasks : LoopSleepDone(t)
    \/ \E t \in Tasks : Analyze(t)
    \/ \E t \in Tasks : WaitPoll(t)
    \/ \E t \in Tasks : CycleSleepDone(t)
    \/ \E t \in Tasks : OpenPaintMenuDone(t)
    \/ \E t \in Tasks : Intercepted(t)
    \/ \E t \in Tasks : Sending(t)
    \/ \E t \in Tasks : Backoff(t)
    \/ \E t \in Tasks : FastSending(t)
    \/ \E t \in Tasks : FastBackoff(t)
    \/ \E i \in 1..MaxTimers : Tick(i)
    \/ \E t \in Tasks : CheckDiff(t)
    \/ \E t \in Tasks : CheckRepair(t)

Spec == Init /\ [][Next]_vars

\* ---------------------------------------------------------------------
\* Protection with the toggle left on and no stop
\* ---------------------------------------------------------------------
\* The manager after START_PROTECTION and a CONTINUE_PROTECTION cycle: one
\* interval scheduled, the main loop in its protection sleep.  Every
\* START_PROTECTION schedules one more interval, so the mode leaves PROTECTING
\* only while an interval is left to schedule.

InitProtect ==
    /\ isRunning = TRUE
    /\ mode = "PROTECTING"
    /\ protectionInterval = 1
    /\ timers = {1}
    /\ protectionCheckInProgress = FALSE
    /\ protectionRepairInProgress = FALSE
    /\ bmProtectMode = TRUE
    /\ starting = 0
    /\ cachedRequestContext = NoContext
    /\ windowFetch = 0
    /\ wrapper = [w \in 1..MaxWrappers |-> NoWrapper]
    /\ job = [t \in Tasks |-> FirstJob]
    /\ net = NoRequest
    /\ wt = NoWait
    /\ an = NoAnalysis
    /\ task = [t \in Tasks |-> IF t = 1 THEN "protSleep" ELSE IF IsLoop(t) THEN Off ELSE Idle]
    /\ ev = "cycle:CONTINUE_PROTECTION"

TimerLeft == (mode = "PROTECTING" /\ mode' # "PROTECTING") => FreeTimers # {}

ProtectAnalyze(t) == Analyze(t) /\ TimerLeft

ProtectCheckRepair(t) == CheckRepair(t) /\ TimerLeft

NextProtect ==
    \/ \E t \in Tasks : LoopSleepDone(t)
    \/ \E t \in Tasks : ProtectAnalyze(t)
    \/ \E t \in Tasks : WaitPoll(t)
    \/ \E t \in Tasks : CycleSleepDone(t)
    \/ \E t \in Tasks : OpenPaintMenuDone(t)
    \/ \E t \in Tasks : Intercepted(t)
    \/ \E t \in Tasks : Sending(t)
    \/ \E t \in Tasks : Backoff(t)
    \/ \E t \in Tasks : FastSending(t)
    \/ \E t \in Tasks : FastBackoff(t)
    \/ \E i \in 1..MaxTimers : Tick(i)
    \/ \E t \in Tasks : CheckDiff(t)
    \/ \E t \in Tasks : ProtectCheckRepair(t)

\* the event loop runs every task whose sleep is over or whose request settled;
\* the server does not answer 429 for ever, the wait for charges ends, the loop's
\* diff finds the template complete again and again, and an interval fires again
\* and again while the mode is PROTECTING
ProtectFairness ==
    /\ \A t \in Tasks : WF_vars(LoopSleepDone(t))
    /\ \A t \in Tasks : WF_vars(ProtectAnalyze(t))
    /\ \A t \in Tasks : WF_vars(WaitPoll(t) /\ task'[t] # "waiting")
    /\ \A t \in Tasks : WF_vars(CycleSleepDone(t))
    /\ \A t \in Tasks : WF_vars(OpenPaintMenuDone(t))
    /\ \A t \in Tasks : WF_vars(Intercepted(t))
    /\ \A t \in Tasks : WF_vars(Backoff(t))
    /\ \A t \in Tasks : WF_vars(FastBackoff(t))
    /\ \A t \in Tasks : WF_vars(CheckDiff(t))
    /\ \A t \in Tasks : WF_vars(ProtectCheckRepair(t))
    /\ \A t \in Tasks : SF_vars(Sending(t) /\ task'[t] = "cycleSleep")
    /\ \A t \in Tasks : SF_vars(FastSending(t) /\ task'[t] = "cycleSleep")
    /\ \A t \in Tasks : SF_vars(ProtectAnalyze(t) /\ mode' = "PROTECTING")
    /\ \A i \in 1..MaxTimers : SF_vars(Tick(i))

SpecProtect == InitProtect /\ [][NextProtect]_vars /\ ProtectFairness

\* ---------------------------------------------------------------------
\* analyzeSituation on its own: inputs drawn in the initial state, one application
\* ---------------------------------------------------------------------

Modes == {"IDLE", "FILLING", "WAITING_CHARGES", "PROTECTING"}

AnalyzeInputs ==
    [hasCharges : BOOLEAN, count : ChargeCounts, limit : {chargeLimitOf(i, MaxCharge) : i \in LimitInputs},
     P : DiffResults, protect : BOOLEAN, mode : Modes,
     done : {FALSE}, action : {"none"}, waitTime : {0}, scheduled : {0}]

InitAnalyze ==
    /\ InitManager
    /\ task = [t \in Tasks |-> Off]
    /\ an \in AnalyzeInputs
    /\ ev = "init"

ApplyAnalyze ==
    /\ ~an.done
    /\ LET r == analyzeSituation(an.hasCharges, an.count, an.limit, an.P, an.protect, an.mode)
       IN  an' = [an EXCEPT !.done = TRUE, !.action = r.action,
                            !.waitTime = r.waitTime, !.scheduled = r.scheduled]
    /\ ev' = "analyzed"
    /\ UNCHANGED <<mgrVars, bmProtectMode, starting, task, placeVars, wt>>
    /\ net' = NoRequest

NextAnalyze == ApplyAnalyze

SpecAnalyze == InitAnalyze /\ [][NextAnalyze]_vars

\* ---------------------------------------------------------------------
\* interceptFetchRequest: the wrappers installed on unsafeWindow.fetch
\* ---------------------------------------------------------------------
\* A wrapper is the closure of one interceptFetchRequest call: interceptionActive
\* (active), originalFetch (orig: 0 = the page's own fetch, else another wrapper),
\* whether its triggerAction is still running (trig), whether its
\* requestBodyBuilder caches the context (cb), the chunk group it substitutes
\* (batch), and the task awaiting its promise (owner, 0 once it is settled).  A
\* wrapper whose interceptionActive is false forwards every request to its
\* originalFetch, so a reference to it is a reference to what it forwards to.

Wrappers == 1..MaxWrappers
Tokens == 1..MaxToken

RECURSIVE Forward(_, _)
Forward(wr, x) ==
    IF x = 0 THEN 0
    ELSE IF wr[x].active THEN x
    ELSE Forward(wr, wr[x].orig)

RECURSIVE Closure(_, _, _)
Closure(wr, S, k) ==
    IF k = 0 THEN S
    ELSE Closure(wr, (S \cup {wr[w].orig : w \in S}) \ {0}, k - 1)

\* the closures still referenced (by unsafeWindow.fetch, by a running
\* triggerAction, by an awaited promise), with forwarding wrappers skipped
Collect(wr, wf) ==
    LET wr1 == [w \in Wrappers |-> [wr[w] EXCEPT !.orig = Forward(wr, wr[w].orig)]]
        roots == ({Forward(wr, wf)} \cup {w \in Wrappers : wr1[w].trig \/ wr1[w].owner # 0})
                 \ {0}
        live == Closure(wr1, roots, MaxWrappers)
    IN  [w \in Wrappers |-> IF w \in live THEN wr1[w] ELSE NoWrapper]

FreeWrappers == {w \in Wrappers : wrapper[w] = NoWrapper}

\* the wrappers a request handed to unsafeWindow.fetch meets, outermost first
RECURSIVE Chain(_, _)
Chain(wr, x) ==
    IF x = 0 THEN <<>>
    ELSE IF wr[x].active THEN <<x>> \o Chain(wr, wr[x].orig)
    ELSE Chain(wr, wr[x].orig)

Range(seq) == {seq[i] : i \in DOMAIN seq}

\* a request handed to the network: by the page's own fetch (fn: the function the
\* sender called, fetchAtSend: unsafeWindow.fetch at that moment) or by the
\* script's fetch
Request(via, kind, t, batch, extra, fn, fetchAtSend) ==
    [via |-> via, kind |-> kind, t |-> t, batch |-> batch, extra |-> extra,
     fn |-> fn, fetchAtSend |-> fetchAtSend]

matches_anyPost(kind) == kind \in {"postPixel", "postOther"}

\* the wrapper matches: method POST and a URL that includes '/pixel/'
matches(kind) == kind = "postPixel"

\* a wrapper rewrites a request only while interceptionActive, and only a match
intercepts(active, kind) == active /\ matches(kind)

hasToken_any(t) == TRUE

\* "const token = originalBody['t']; if (!token) throw ..."
hasToken(t) == t # 0

restored_kept(w, orig) == w

\* "unsafeWindow.fetch = originalFetch" of wrapper w: when it fires, when its
\* interception fails, when its triggerAction throws
restored(w, orig) == orig

\* the value of unsafeWindow.fetch when wrapper w sends its substitute through
\* originalFetch: "unsafeWindow.fetch = originalFetch" comes first
fetchAtSubstitute(w, orig) == orig

\* ---------------------------------------------------------------------
\* PixelPlacer, with its requests
\* ---------------------------------------------------------------------

isRequestContextValid_anyAge(ctx) == ctx # NoContext

\* cachedRequestContext and contextTimestamp set, and age < contextMaxAge
isRequestContextValid(ctx) == ctx # NoContext /\ ctx.fresh

\* placeChunk: "if (isFirstChunk || !this.isRequestContextValid())" the slow path
placeChunkPath(isFirstChunk, ctx) ==
    IF isFirstChunk \/ ~isRequestContextValid(ctx) THEN "slow" ELSE "fast"

\* 30 s later: a context captured before the wait began is older than contextMaxAge
aged(ctx, recap) == IF ctx # NoContext /\ ~recap THEN [ctx EXCEPT !.fresh = FALSE] ELSE ctx

\* the request of placePixelsWithCachedContext: the captured body with colors and
\* coords replaced, sent with the script's own fetch
CachedRequest(ctx, batch) ==
    Request("cached", "postPixel", ctx.token, batch, ctx.extra, 0, windowFetch)

\* an exception leaves placeChunk and placePixels
Throw(t) ==
    /\ task' = [task EXCEPT ![t] = Thrown(t)]
    /\ job' = [job EXCEPT ![t] = FirstJob]
    /\ ThrownFlags(t)

NoTokenEvent(t) ==
    IF t = 0 THEN "notoken:none" ELSE IF IsLoop(t) THEN "notoken:loop" ELSE "notoken:check"


\* placePixelsWithInterceptor -> interceptFetchRequest: install the wrapper and
\* start triggerAction, which throws at once when the map canvas is missing
Arm(t, batch, cb, retry) ==
    \E canvas \in BOOLEAN :
        IF canvas
        THEN /\ FreeWrappers # {}
             /\ LET w == FirstFree(FreeWrappers)
                    wr == [wrapper EXCEPT ![w] = [active |-> TRUE, trig |-> TRUE,
                                                  orig |-> windowFetch, cb |-> cb,
                                                  batch |-> batch, owner |-> t]]
                IN  /\ wrapper' = Collect(wr, w)
                    /\ windowFetch' = w
                    /\ job' = [job EXCEPT ![t] = [batch |-> batch, retry |-> retry,
                                                  cb |-> cb, recap |-> FALSE, w |-> w]]
             /\ task' = [task EXCEPT ![t] = "intercepting"]
             /\ ev' = "arm"
             /\ UNCHANGED flagVars
        ELSE /\ Throw(t)
             /\ ev' = ThrowEvent(t)
             /\ UNCHANGED <<windowFetch, wrapper>>

\* placeChunk, slow path: openPaintMenu is over (or found no paint button and
\* throws), then placePixelsWithInterceptor with retryCount 0
PlaceOpenMenu(t) ==
    /\ task[t] = "menuWait"
    /\ \/ Arm(t, job[t].batch, job[t].cb, 0)
       \/ /\ Throw(t)
          /\ ev' = ThrowEvent(t)
          /\ UNCHANGED <<windowFetch, wrapper>>
    /\ UNCHANGED <<isRunning, mode, timerVars, bmProtectMode, starting,
                   cachedRequestContext, an, wt>>
    /\ net' = NoRequest

\* triggerAction of wrapper w is over: it clicked the confirm button, or it found
\* none and throws, and interceptFetchRequest restores fetch and rejects
TriggerDone(w) ==
    /\ wrapper[w].trig
    /\ \/ /\ wrapper' = Collect([wrapper EXCEPT ![w].trig = FALSE], windowFetch)
          /\ windowFetch' = Forward(wrapper, windowFetch)
          /\ ev' = "click"
          /\ UNCHANGED <<task, job, flagVars>>
       \/ LET o == wrapper[w].owner
              wr == [wrapper EXCEPT ![w].trig = FALSE, ![w].owner = 0]
          IN  /\ wrapper' = Collect(wr, restored(w, wrapper[w].orig))
              /\ windowFetch' = Forward(wr, restored(w, wrapper[w].orig))
              /\ IF o # 0 THEN Throw(o) ELSE UNCHANGED <<task, job, flagVars>>
              /\ ev' = "trigger:failed"
    /\ UNCHANGED <<isRunning, mode, timerVars, bmProtectMode, starting,
                   cachedRequestContext, an, wt>>
    /\ net' = NoRequest

\* what the page hands to unsafeWindow.fetch: a GET, a POST elsewhere, or a
\* placement POST; the body of a POST has a token t (0 = none) and, maybe,
\* further fields
PageRequests ==
    [kind : {"get"}, t : {0}, extra : {FALSE}]
    \cup [kind : {"postOther"}, t : 0..MaxToken, extra : {FALSE}]
    \cup [kind : {"postPixel"}, t : 0..MaxToken, extra : BOOLEAN]

BackoffPcs == {"backoff", "fastBackoff"}

\* the page (after a confirm click, or on its own) calls unsafeWindow.fetch while
\* a wrapper is installed
PageFetch ==
    /\ windowFetch # 0
    /\ \E req \in PageRequests :
        LET chain == Chain(wrapper, windowFetch)
            hit == SelectSeq(chain, LAMBDA w : intercepts(wrapper[w].active, req.kind))
        IN
        \/ \* every wrapper forwards the request as it is
           /\ hit = <<>>
           /\ net' = Request("page", req.kind, req.t, 0, req.extra, 0, windowFetch)
           /\ ev' = "fetch:page"
           /\ UNCHANGED <<task, job, flagVars, cachedRequestContext, windowFetch, wrapper>>
        \/ \* no token 't': the outermost wrapper restores fetch and rejects
           /\ hit # <<>> /\ ~hasToken(req.t)
           /\ LET w == hit[1]
                  o == wrapper[w].owner
                  wr == [wrapper EXCEPT ![w].active = FALSE, ![w].owner = 0]
              IN  /\ wrapper' = Collect(wr, restored(w, wrapper[w].orig))
                  /\ windowFetch' = Forward(wr, restored(w, wrapper[w].orig))
                  /\ IF o # 0 THEN Throw(o) ELSE UNCHANGED <<task, job, flagVars>>
                  /\ ev' = NoTokenEvent(o)
           /\ UNCHANGED cachedRequestContext
           /\ net' = NoRequest
        \/ \* each wrapper on the way builds its substitute (caching the context
           \* if it has the callback), restores fetch and passes it on; the
           \* innermost hands it to the page's own fetch
           /\ hit # <<>> /\ hasToken(req.t)
           /\ LET inner == hit[Len(hit)]
                  wr == [w \in Wrappers |->
                           IF w \in Range(hit)
                           THEN [wrapper[w] EXCEPT !.active = FALSE]
                           ELSE wrapper[w]]
                  cbs == {i \in DOMAIN hit : wrapper[hit[i]].cb}
                  owners == {wrapper[w].owner : w \in Range(hit)} \ {0}
              IN  /\ wrapper' = Collect(wr, restored(inner, wrapper[inner].orig))
                  /\ windowFetch' = Forward(wr, restored(inner, wrapper[inner].orig))
                  /\ task' = [t \in Tasks |-> IF t \in owners THEN "sending" ELSE task[t]]
                  /\ job' = [t \in Tasks |->
                               IF cbs # {} /\ task[t] \in BackoffPcs
                               THEN [job[t] EXCEPT !.recap = TRUE]
                               ELSE job[t]]
                  /\ cachedRequestContext' =
                       IF cbs = {} THEN cachedRequestContext
                       ELSE [token |-> req.t, extra |-> req.extra /\ cbs = {1},
                             fresh |-> TRUE]
                  /\ net' = Request("substitute", req.kind, req.t, wrapper[inner].batch,
                                    FALSE, wrapper[inner].orig,
                                    fetchAtSubstitute(inner, wrapper[inner].orig))
                  /\ ev' = "post:sent"
           /\ UNCHANGED flagVars
    /\ UNCHANGED <<isRunning, mode, timerVars, bmProtectMode, starting, an, wt>>

\* what a placement request comes back with: a success, 429, 401/403, another
\* status that is not ok, or no response at all (fetch rejects)
Responses == {"ok", "429", "auth", "err", "netfail"}

fallsBack_never(err) == FALSE

\* the catch of placeChunk around the fast path: an error whose message includes
\* 'Authentication failed' (401/403) or 'No valid cached' sends the same chunk
\* group to openPaintMenu and placePixelsWithInterceptor; any other is rethrown
fallsBack(err) == err \in {"auth", "novalid"}

\* placePixels' for loop after a chunk group: placeChunk for the next group
\* (isFirstChunk false), or the end of the loop and the cycleDelay sleep
AfterChunk(t) ==
    \E more \in BOOLEAN :
        IF more /\ isRunning /\ job[t].batch < MaxBatches
        THEN LET b == job[t].batch + 1 IN
             IF placeChunkPath(FALSE, cachedRequestContext) = "fast"
             THEN /\ task' = [task EXCEPT ![t] = "fastSending"]
                  /\ job' = [job EXCEPT ![t] = [batch |-> b, retry |-> 0, cb |-> FALSE,
                                                recap |-> FALSE, w |-> 0]]
                  /\ net' = CachedRequest(cachedRequestContext, b)
             ELSE /\ task' = [task EXCEPT ![t] = "menuWait"]
                  /\ job' = [job EXCEPT ![t] = [batch |-> b, retry |-> 0, cb |-> TRUE,
                                                recap |-> FALSE, w |-> 0]]
                  /\ net' = NoRequest
        ELSE /\ task' = [task EXCEPT ![t] = "cycleSleep"]
             /\ job' = [job EXCEPT ![t] = FirstJob]
             /\ net' = NoRequest

\* the substitute request of the slow path is answered, inside the wrapper
\* (resolve, or the catch that restores fetch and rejects) and, in the same run,
\* in placePixelsWithInterceptor: 429 waits 30 s, any other response is the result
SubstituteReturns(t) ==
    /\ task[t] = "sending"
    /\ \E status \in Responses :
        LET w == job[t].w
            wr == [wrapper EXCEPT ![w].owner = 0]
        IN
        \/ /\ status = "netfail"
           /\ wrapper' = Collect(wr, restored(w, wrapper[w].orig))
           /\ windowFetch' = Forward(wr, restored(w, wrapper[w].orig))
           /\ Throw(t)
           /\ net' = NoRequest
           /\ ev' = ThrowEvent(t)
        \/ /\ status = "429"
           /\ job[t].retry < MaxRetry
           /\ wrapper' = Collect(wr, windowFetch)
           /\ windowFetch' = Forward(wr, windowFetch)
           /\ task' = [task EXCEPT ![t] = "backoff"]
           /\ job' = [job EXCEPT ![t].recap = FALSE, ![t].w = 0]
           /\ net' = NoRequest
           /\ ev' = "slow:429"
           /\ UNCHANGED flagVars
        \/ /\ status \in {"ok", "auth", "err"}
           /\ wrapper' = Collect(wr, windowFetch)
           /\ windowFetch' = Forward(wr, windowFetch)
           /\ AfterChunk(t)
           /\ ev' = IF status = "ok" THEN "slow:ok" ELSE "slow:err"
           /\ UNCHANGED flagVars
    /\ UNCHANGED <<isRunning, mode, timerVars, bmProtectMode, starting,
                   cachedRequestContext, an, wt>>

\* 30 s after a 429 on the slow path: placePixelsWithInterceptor calls itself
\* with retryCount + 1 and no onContextCaptured, without openPaintMenu
RetrySlow(t) ==
    /\ task[t] = "backoff"
    /\ cachedRequestContext' = aged(cachedRequestContext, job[t].recap)
    /\ Arm(t, job[t].batch, FALSE, job[t].retry + 1)
    /\ UNCHANGED <<isRunning, mode, timerVars, bmProtectMode, starting, an, wt>>
    /\ net' = NoRequest

\* the request of the fast path is answered, in placePixelsWithCachedContext and,
\* when that throws, in the catch of placeChunk
CachedReturns(t) ==
    /\ task[t] = "fastSending"
    /\ \E status \in Responses :
        \/ /\ status = "ok"
           /\ AfterChunk(t)
           /\ ev' = "fast:ok"
           /\ UNCHANGED <<flagVars, cachedRequestContext>>
        \/ /\ status = "429"
           /\ job[t].retry < MaxRetry
           /\ task' = [task EXCEPT ![t] = "fastBackoff"]
           /\ job' = [job EXCEPT ![t].recap = FALSE]
           /\ ev' = "fast:429"
           /\ UNCHANGED <<flagVars, cachedRequestContext>>
           /\ net' = NoRequest
        \/ /\ status \in {"auth", "err", "netfail"}
           /\ cachedRequestContext' =
                IF status = "auth" THEN NoContext ELSE cachedRequestContext
           /\ IF fallsBack(status)
              THEN /\ task' = [task EXCEPT ![t] = "menuWait"]
                   /\ job' = [job EXCEPT ![t].retry = 0, ![t].cb = FALSE]
                   /\ UNCHANGED flagVars
              ELSE Throw(t)
           /\ ev' = IF status = "netfail" THEN ThrowEvent(t) ELSE "fast:" \o status
           /\ net' = NoRequest
    /\ UNCHANGED <<isRunning, mode, timerVars, bmProtectMode, starting,
                   windowFetch, wrapper, an, wt>>

\* 30 s after a 429 on the fast path: placePixelsWithCachedContext calls itself
\* with retryCount + 1; it sends again if the context is still valid, otherwise it
\* throws 'No valid cached request context' and placeChunk takes the slow path
RetryCached(t) ==
    /\ task[t] = "fastBackoff"
    /\ LET ctx == aged(cachedRequestContext, job[t].recap) IN
       IF isRequestContextValid(ctx)
       THEN /\ cachedRequestContext' = ctx
            /\ net' = CachedRequest(ctx, job[t].batch)
            /\ task' = [task EXCEPT ![t] = "fastSending"]
            /\ job' = [job EXCEPT ![t].retry = job[t].retry + 1]
            /\ ev' = "retry:fast"
            /\ UNCHANGED flagVars
       ELSE /\ net' = NoRequest
            /\ ev' = "retry:fallback"
            /\ IF fallsBack("novalid")
               THEN /\ cachedRequestContext' = NoContext
                    /\ task' = [task EXCEPT ![t] = "menuWait"]
                    /\ job' = [job EXCEPT ![t].retry = 0, ![t].cb = FALSE]
                    /\ UNCHANGED flagVars
               ELSE /\ cachedRequestContext' = ctx
                    /\ Throw(t)
    /\ UNCHANGED <<isRunning, mode, timerVars, bmProtectMode, starting,
                   windowFetch, wrapper, an, wt>>

\* contextMaxAge (10 s) passes since the context was captured
ContextExpires ==
    /\ cachedRequestContext # NoContext
    /\ cachedRequestContext.fresh
    /\ cachedRequestContext' = [cachedRequestContext EXCEPT !.fresh = FALSE]
    /\ ev' = "expire"
    /\ UNCHANGED <<mgrVars, bmProtectMode, starting, task, job, fetchVars, an, wt>>
    /\ net' = NoRequest

\* one main loop and the page, with every step of placeChunk; the protection
\* toggle, which placeChunk neither reads nor writes, is left to Spec
InitPlace ==
    /\ InitManager
    /\ task = [t \in Tasks |-> IF t = 1 THEN Idle ELSE Off]
    /\ an = NoAnalysis
    /\ ev = "init"

NextPlace ==
    \/ StartClick
    \/ StartResume
    \/ \E t \in Tasks : LoopSleepDone(t)
    \/ \E t \in Tasks : Analyze(t)
    \/ \E t \in Tasks : WaitPoll(t)
    \/ \E t \in Tasks : CycleSleepDone(t)
    \/ \E t \in Tasks : PlaceOpenMenu(t)
    \/ \E w \in Wrappers : TriggerDone(w)
    \/ PageFetch
    \/ \E t \in Tasks : SubstituteReturns(t)
    \/ \E t \in Tasks : RetrySlow(t)
    \/ \E t \in Tasks : CachedReturns(t)
    \/ \E t \in Tasks : RetryCached(t)
    \/ ContextExpires

SpecPlace == InitPlace /\ [][NextPlace]_vars

\* SpecPlace with every timer firing, every response arriving and every resumed
\* task running; the page keeps calling fetch, with requests of its own choice
PlaceFairness ==
    /\ WF_vars(StartResume)
    /\ \A t \in Tasks : WF_vars(LoopSleepDone(t))
    /\ \A t \in Tasks : WF_vars(Analyze(t))
    /\ \A t \in Tasks : WF_vars(WaitPoll(t))
    /\ \A t \in Tasks : WF_vars(CycleSleepDone(t))
    /\ \A t \in Tasks : WF_vars(PlaceOpenMenu(t))
    /\ \A w \in Wrappers : WF_vars(TriggerDone(w))
    /\ WF_vars(PageFetch)
    /\ \A t \in Tasks : WF_vars(SubstituteReturns(t))
    /\ \A t \in Tasks : WF_vars(RetrySlow(t))
    /\ \A t \in Tasks : WF_vars(CachedReturns(t))
    /\ \A t \in Tasks : WF_vars(RetryCached(t))
    /\ WF_vars(ContextExpires)

SpecPlaceFair == SpecPlace /\ PlaceFairness

\* ---------------------------------------------------------------------
\* openPaintMenu with the polling of waitForElement
\* ---------------------------------------------------------------------
\* One placePixels call of the main loop, from the openPaintMenu of its first
\* chunk group on.  an holds waitCount of the waitForElement call in progress,
\* and what the last call found and returned.

MaxWaitTime == 100      \* openPaintMenu: maxWaitTime: 100

\* what document.querySelector finds: no paint button, a disabled one, an enabled one
Elements == {"absent", "disabled", "ready"}

NoPolling == [fn |-> "waitForElement", waitCount |-> 0, element |-> "none", result |-> "none"]

keepWaiting_unbounded(element, waitCount) == element # "ready"

\* while ((!element || (checkEnabled && element.disabled)) && waitCount < maxWaitTime)
keepWaiting(element, waitCount) == element # "ready" /\ waitCount < MaxWaitTime

success_always(element) == TRUE

\* waitForElement returns success: true with an element that is there and enabled
success(element) == element = "ready"

\* openPaintMenu from a query of the paint button to the next suspension: another
\* sleep of sleepInterval, or the click and placePixelsWithInterceptor, or the throw
MenuPoll(t) ==
    /\ task[t] = "menuWait"
    /\ \E element \in Elements :
         IF keepWaiting(element, an.waitCount)
         THEN /\ an' = [an EXCEPT !.waitCount = an.waitCount + 1]
              /\ ev' = "menu:sleep"
              /\ UNCHANGED <<task, job, flagVars, windowFetch, wrapper>>
         ELSE /\ an' = [NoPolling EXCEPT !.element = element,
                                         !.result = IF success(element) THEN "ready" ELSE "thrown"]
              /\ IF success(element)
                 THEN Arm(t, job[t].batch, job[t].cb, 0)
                 ELSE /\ Throw(t)
                      /\ ev' = ThrowEvent(t)
                      /\ UNCHANGED <<windowFetch, wrapper>>
    /\ UNCHANGED <<isRunning, mode, timerVars, bmProtectMode, starting,
                   cachedRequestContext, wt>>
    /\ net' = NoRequest

InitMenu ==
    /\ isRunning = TRUE
    /\ mode = "FILLING"
    /\ protectionInterval = 0
    /\ protectionCheckInProgress = FALSE
    /\ protectionRepairInProgress = FALSE
    /\ bmProtectMode = FALSE
    /\ timers = {}
    /\ starting = 0
    /\ cachedRequestContext = NoContext
    /\ windowFetch = 0
    /\ wrapper = [w \in 1..MaxWrappers |-> NoWrapper]
    /\ job = [t \in Tasks |-> FirstJob]
    /\ net = NoRequest
    /\ wt = NoWait
    /\ task = [t \in Tasks |-> IF t = 1 THEN "menuWait" ELSE Off]
    /\ an = NoPolling
    /\ ev = "cycle:PLACE_PIXELS"

NextMenu ==
    \/ \E t \in Tasks : MenuPoll(t)
    \/ \E w \in Wrappers : TriggerDone(w)
    \/ PageFetch
    \/ \E t \in Tasks : SubstituteReturns(t)
    \/ \E t \in Tasks : RetrySlow(t)
    \/ \E t \in Tasks : CachedReturns(t)
    \/ \E t \in Tasks : RetryCached(t)
    \/ ContextExpires
    \/ \E t \in Tasks : CycleSleepDone(t)
    \/ \E t \in Tasks : LoopSleepDone(t)

\* the sleep between two queries ends
SpecMenu == InitMenu /\ [][NextMenu]_vars /\ \A t \in Tasks : WF_vars(MenuPoll(t))

\* ---------------------------------------------------------------------
\* AutoFillManager.waitForCharges, with its clock
\* ---------------------------------------------------------------------
\* Times are in ms.  wt.rem is endTime - Date.now(), wt.sleep what is left of the
\* sleep the call is in, wt.slept how much of that sleep passed with isRunning
\* false; wt.input is the value of #bm-input-charge-limit (0 = empty), wt.count
\* the snapshot of charges.count the call holds (in 1/Frac), wt.chargeLimit its
\* local chargeLimit, wt.change how the last re-read of the input changed it.

\* calculateWaitTime with the partial charge's time rounded down
calculateWaitTimeAt_floor(count, limit, pixelsNeeded, rate) ==
    LET chargesNeeded == Min(pixelsNeeded, limit) - (count \div Frac)
        timeForCurrentCharge == ((Frac - (count % Frac)) * rate) \div Frac
    IN  IF chargesNeeded <= 1
        THEN timeForCurrentCharge
        ELSE timeForCurrentCharge + (chargesNeeded - 1) * rate

\* calculateWaitTime for charges whose rechargeTime is rate
calculateWaitTimeAt(count, limit, pixelsNeeded, rate) ==
    LET currentCharges == count \div Frac
        targetCharges == Min(pixelsNeeded, limit)
        chargesNeeded == targetCharges - currentCharges
        partial == count % Frac
        timeForCurrentCharge == ((Frac - partial) * rate + Frac - 1) \div Frac
    IN  IF chargesNeeded <= 1
        THEN timeForCurrentCharge
        ELSE timeForCurrentCharge + (chargesNeeded - 1) * rate

sleepTime_whole(remaining) == remaining

\* "await this.sleep(Math.min(1000, remaining))"
sleepTime(remaining) == Min(PollSleep, remaining)

\* "if (recalculated > remainingNow) endTime = Date.now() + recalculated"
newRemaining(remainingNow, recalculated) ==
    IF recalculated > remainingNow THEN recalculated ELSE remainingNow

WaitPhases == {"sleeping", "refreshing"}

\* waitForCharges returns to executeCycle, and that to the head of runMainLoop
WaitReturn(w) ==
    /\ wt' = [w EXCEPT !.phase = "returned", !.sleep = 0, !.slept = 0]
    /\ task' = [task EXCEPT ![1] = LoopNext(isRunning, protectionRepairInProgress)]
    /\ ev' = "wait:return"

\* the loop body from the early exit on: return when the snapshot has reached the
\* limit, else recalculate (calculateWaitTime reads the input itself), extend
\* endTime if need be, and sleep
WaitBody(w) ==
    IF w.count >= w.chargeLimit * Frac
    THEN WaitReturn(w)
    ELSE LET recalculated == calculateWaitTimeAt(w.count, chargeLimitOf(w.input, MaxCharge),
                                                 w.P, WaitRecharge)
             remaining == newRemaining(w.rem, recalculated)
         IN  /\ wt' = [w EXCEPT !.phase = "sleeping", !.rem = remaining,
                                !.sleep = sleepTime(remaining), !.slept = 0]
             /\ task' = task
             /\ ev' = "wait:sleep"

\* the sleep is over: the loop head ("Date.now() < endTime && isRunning"), then
\* the body up to its next await: the re-read of the input, and every fifth
\* iteration refreshUserData
WaitWake ==
    /\ wt.phase = "sleeping"
    /\ wt.sleep = 0
    /\ IF ~(wt.rem > 0 /\ isRunning)
       THEN WaitReturn(wt)
       ELSE LET inputVal == wt.input
                limit == IF inputVal # 0 /\ inputVal # wt.chargeLimit
                         THEN inputVal ELSE wt.chargeLimit
                w == [wt EXCEPT !.iterations = (wt.iterations + 1) % RefreshEvery,
                                !.chargeLimit = limit,
                                !.change = IF limit < wt.chargeLimit THEN "lowered"
                                           ELSE IF limit > wt.chargeLimit THEN "raised"
                                           ELSE "same"]
            IN  IF w.iterations = 0
                THEN /\ wt' = [w EXCEPT !.phase = "refreshing"]
                     /\ task' = task
                     /\ ev' = "wait:refresh"
                ELSE WaitBody(w)
    /\ UNCHANGED <<mgrVars, bmProtectMode, starting, placeVars, an>>
    /\ net' = NoRequest

\* refreshUserData is over: the snapshot is what the server reports now (or the
\* old one, if the fetch failed), then the rest of the body
WaitRefreshed ==
    /\ wt.phase = "refreshing"
    /\ \E c \in ChargeCounts : WaitBody([wt EXCEPT !.count = c])
    /\ UNCHANGED <<mgrVars, bmProtectMode, starting, placeVars, an>>
    /\ net' = NoRequest

\* TickMs of the sleep pass (or what is left of it)
WaitTick ==
    /\ wt.phase = "sleeping"
    /\ wt.sleep > 0
    /\ LET d == Min(TickMs, wt.sleep) IN
       wt' = [wt EXCEPT !.sleep = wt.sleep - d,
                        !.rem = IF wt.rem > d THEN wt.rem - d ELSE 0,
                        !.slept = IF isRunning THEN 0 ELSE wt.slept + d]
    /\ ev' = "wait:tick"
    /\ UNCHANGED <<mgrVars, bmProtectMode, starting, task, placeVars, an>>
    /\ net' = NoRequest

\* the user types another value into #bm-input-charge-limit (or empties it)
InputChange ==
    /\ wt.phase \in WaitPhases
    /\ \E v \in LimitInputs : v # wt.input /\ wt' = [wt EXCEPT !.input = v]
    /\ ev' = "input"
    /\ UNCHANGED <<mgrVars, bmProtectMode, starting, task, placeVars, an>>
    /\ net' = NoRequest

\* a main loop in the first sleep of waitForCharges: executeCycle found that it
\* has to wait and the first iteration, run without a suspension on the very
\* data of the analysis, neither returned nor extended the wait
InitWait ==
    /\ isRunning = TRUE
    /\ mode = "WAITING_CHARGES"
    /\ protectionInterval = 0
    /\ protectionCheckInProgress = FALSE
    /\ protectionRepairInProgress = FALSE
    /\ bmProtectMode = FALSE
    /\ timers = {}
    /\ starting = 0
    /\ cachedRequestContext = NoContext
    /\ windowFetch = 0
    /\ wrapper = [w \in 1..MaxWrappers |-> NoWrapper]
    /\ job = [t \in Tasks |-> FirstJob]
    /\ net = NoRequest
    /\ task = [t \in Tasks |-> IF t = 1 THEN "waiting" ELSE IF t = 2 THEN Idle ELSE Off]
    /\ an = NoAnalysis
    /\ ev = "init"
    /\ \E c \in ChargeCounts, i \in LimitInputs, P \in 1..MaxP :
         LET limit == chargeLimitOf(i, MaxCharge)
             waitTime == calculateWaitTimeAt(c, limit, P, WaitRecharge)
         IN  /\ shouldWaitForCharges(c, limit, P)
             /\ wt = [phase |-> "sleeping", rem |-> waitTime, sleep |-> sleepTime(waitTime),
                      slept |-> 0, chargeLimit |-> limit, change |-> "same",
                      input |-> i, count |-> c, P |-> P, iterations |-> 1]

NextWait ==
    \/ StartClick
    \/ StartResume
    \/ WaitWake
    \/ WaitRefreshed
    \/ WaitTick
    \/ InputChange

SpecWait == InitWait /\ [][NextWait]_vars

\* waitForCharges with an untouched charge-limit input and a server whose charges
\* regenerate at the reported rate: an holds the count the wait began with, the
\* wait time it was called with and the time passed since (which stops counting
\* at MaxElapsed, when the charges are full)
MaxElapsed == (MaxCharge + 1) * WaitRecharge

\* charges.count after elapsed ms: one charge per rechargeTime, up to charges.max
regenerated(count0, elapsed) ==
    Min(MaxCharge * Frac, count0 + (elapsed * Frac) \div WaitRecharge)

\* the first sleep of a wait, as in InitWait, with the input holding the limit
InitWaitSteady ==
    /\ isRunning = TRUE
    /\ mode = "WAITING_CHARGES"
    /\ protectionInterval = 0
    /\ protectionCheckInProgress = FALSE
    /\ protectionRepairInProgress = FALSE
    /\ bmProtectMode = FALSE
    /\ timers = {}
    /\ starting = 0
    /\ cachedRequestContext = NoContext
    /\ windowFetch = 0
    /\ wrapper = [w \in 1..MaxWrappers |-> NoWrapper]
    /\ job = [t \in Tasks |-> FirstJob]
    /\ net = NoRequest
    /\ task = [t \in Tasks |-> IF t = 1 THEN "waiting" ELSE Off]
    /\ ev = "init"
    /\ \E c \in ChargeCounts, limit \in 1..MaxCharge, P \in 1..MaxP :
         LET waitTime == calculateWaitTimeAt(c, limit, P, WaitRecharge)
         IN  /\ shouldWaitForCharges(c, limit, P)
             /\ wt = [phase |-> "sleeping", rem |-> waitTime, sleep |-> sleepTime(waitTime),
                      slept |-> 0, chargeLimit |-> limit, change |-> "same",
                      input |-> limit, count |-> c, P |-> P, iterations |-> 1]
             /\ an = [count0 |-> c, waitTime |-> waitTime, elapsed |-> 0]

\* the sleep is over (WaitWake, which no time passes in)
SteadyWake ==
    /\ WaitWake
    /\ an' = an

\* refreshUserData is over and reports the regenerated count
SteadyRefreshed ==
    /\ wt.phase = "refreshing"
    /\ WaitBody([wt EXCEPT !.count = regenerated(an.count0, an.elapsed)])
    /\ UNCHANGED <<mgrVars, bmProtectMode, starting, placeVars, an>>
    /\ net' = NoRequest

\* TickMs of the sleep pass (WaitTick, with the time counted)
SteadyTick ==
    /\ wt.phase = "sleeping"
    /\ wt.sleep > 0
    /\ LET d == Min(TickMs, wt.sleep) IN
       /\ wt' = [wt EXCEPT !.sleep = wt.sleep - d,
                           !.rem = IF wt.rem > d THEN wt.rem - d ELSE 0,
                           !.slept = 0]
       /\ an' = [an EXCEPT !.elapsed = Min(MaxElapsed, an.elapsed + d)]
    /\ ev' = "wait:tick"
    /\ UNCHANGED <<mgrVars, bmProtectMode, starting, task, placeVars>>
    /\ net' = NoRequest

NextWaitSteady ==
    \/ SteadyWake
    \/ SteadyRefreshed
    \/ SteadyTick

SpecWaitSteady == InitWaitSteady /\ [][NextWaitSteady]_vars

\* ---------------------------------------------------------------------
\* The pure functions of ChargeManager and the colour utilities, each on its
\* own: the input is drawn in the initial state, one action applies one function
\* ---------------------------------------------------------------------

\* charges.rechargeTime || 30000 (0 = the field is missing)
chargeRateOf(rechargeTime) == IF rechargeTime = 0 THEN RechargeTime ELSE rechargeTime

RechargeInputs == {0, WaitRecharge, WaitRecharge + 1}

WaitTimeInputs ==
    [fn : {"calculateWaitTime"}, count : ChargeCounts, max : {MaxCharge},
     input : LimitInputs, P : 0..MaxP, rechargeTime : RechargeInputs,
     done : {FALSE}, out : {0}]

ApplyCalculateWaitTime ==
    /\ an.fn = "calculateWaitTime"
    /\ ~an.done
    /\ an' = [an EXCEPT !.done = TRUE,
                        !.out = calculateWaitTimeAt(an.count, chargeLimitOf(an.input, an.max),
                                                    an.P, chargeRateOf(an.rechargeTime))]
    /\ ev' = "calculateWaitTime"
    /\ UNCHANGED <<mgrVars, bmProtectMode, starting, task, placeVars, wt>>
    /\ net' = NoRequest

\* getOwnedColorsFromBitmap.  A 32-bit pattern is held as its top bit and its
\* low 31 bits, which is what extraColorsBitmap >>> 0 and the operands of & are.
Int32Max == 2147483647
ColorBits == 32

toUint32_magnitude(m) == [top |-> 0, low |-> IF m < 0 THEN 0 - (m + 1) ELSE m]

toUint32(m) == IF m < 0 THEN [top |-> 1, low |-> (m + Int32Max) + 1]
                        ELSE [top |-> 0, low |-> m]

\* (u & (1 << i)) !== 0
bitSet(u, i) == IF i = ColorBits - 1 THEN u.top = 1 ELSE (u.low \div (2 ^ i)) % 2 = 1

RECURSIVE sortAscending(_)
sortAscending(S) ==
    IF S = {} THEN <<>>
    ELSE LET lo == CHOOSE x \in S : \A y \in S : x <= y
         IN  <<lo>> \o sortAscending(S \ {lo})

getOwnedColorsFromBitmap(extraColorsBitmap) ==
    LET base == 0..(ColorBits - 1)
        extra == IF extraColorsBitmap = 0 THEN {}
                 ELSE {i + ColorBits : i \in {j \in 0..(ColorBits - 1) :
                                                 bitSet(toUint32(extraColorsBitmap), j)}}
    IN  sortAscending(base \cup extra)

BitmapInputs ==
    (0 - MaxBitmap)..MaxBitmap \cup {Int32Max - k : k \in 0..MaxBitmap}
                               \cup {(0 - Int32Max) - 1 + k : k \in 0..MaxBitmap}

OwnedInputs == [fn : {"getOwnedColorsFromBitmap"}, m : BitmapInputs, done : {FALSE}, out : {<<>>}]

ApplyGetOwnedColors ==
    /\ an.fn = "getOwnedColorsFromBitmap"
    /\ ~an.done
    /\ an' = [an EXCEPT !.done = TRUE, !.out = getOwnedColorsFromBitmap(an.m)]
    /\ ev' = "getOwnedColorsFromBitmap"
    /\ UNCHANGED <<mgrVars, bmProtectMode, starting, task, placeVars, wt>>
    /\ net' = NoRequest

\* colorMap: palette ID -> <<r, g, b, a>>
colorMapRows ==
    <<
       <<0, 0, 0, 0>>, <<0, 0, 0, 255>>, <<60, 60, 60, 255>>, <<120, 120, 120, 255>>,
       <<210, 210, 210, 255>>, <<255, 255, 255, 255>>, <<96, 0, 24, 255>>, <<237, 28, 36, 255>>,
       <<255, 127, 39, 255>>, <<246, 170, 9, 255>>, <<249, 221, 59, 255>>, <<255, 250, 188, 255>>,
       <<14, 185, 104, 255>>, <<19, 230, 123, 255>>, <<135, 255, 94, 255>>, <<12, 129, 110, 255>>,
       <<16, 174, 166, 255>>, <<19, 225, 190, 255>>, <<40, 80, 158, 255>>, <<64, 147, 228, 255>>,
       <<96, 247, 242, 255>>, <<107, 80, 246, 255>>, <<153, 177, 251, 255>>, <<120, 12, 153, 255>>,
       <<170, 56, 185, 255>>, <<224, 159, 249, 255>>, <<203, 0, 122, 255>>, <<236, 31, 128, 255>>,
       <<243, 141, 169, 255>>, <<104, 70, 52, 255>>, <<149, 104, 42, 255>>, <<248, 178, 119, 255>>,
       <<170, 170, 170, 255>>, <<165, 14, 30, 255>>, <<250, 128, 114, 255>>, <<228, 92, 26, 255>>,
       <<214, 181, 148, 255>>, <<156, 132, 49, 255>>, <<197, 173, 49, 255>>, <<232, 212, 95, 255>>,
       <<74, 107, 58, 255>>, <<90, 148, 74, 255>>, <<132, 197, 115, 255>>, <<15, 121, 159, 255>>,
       <<187, 250, 242, 255>>, <<125, 199, 255, 255>>, <<77, 49, 184, 255>>, <<74, 66, 132, 255>>,
       <<122, 113, 196, 255>>, <<181, 174, 241, 255>>, <<219, 164, 99, 255>>, <<209, 128, 81, 255>>,
       <<255, 197, 165, 255>>, <<155, 82, 73, 255>>, <<209, 128, 120, 255>>, <<250, 182, 164, 255>>,
       <<123, 99, 82, 255>>, <<156, 132, 107, 255>>, <<51, 57, 65, 255>>, <<109, 117, 141, 255>>,
       <<179, 185, 209, 255>>, <<109, 100, 63, 255>>, <<148, 140, 107, 255>>, <<205, 197, 158, 255>>
    >>

PaletteIds == 0..(Len(colorMapRows) - 1)
colorMap == [id \in PaletteIds |-> colorMapRows[id + 1]]

\* the #deface colour, which stands for "place a transparent pixel"
Deface == <<222, 250, 206>>

rgbOf(c) == <<c[1], c[2], c[3]>>
distanceSquared(c, id) ==
    (c[1] - colorMap[id][1]) * (c[1] - colorMap[id][1])
    + (c[2] - colorMap[id][2]) * (c[2] - colorMap[id][2])
    + (c[3] - colorMap[id][3]) * (c[3] - colorMap[id][3])

\* the loop over Object.entries(colorMap): ascending IDs, '0' skipped, a strictly
\* smaller distance replaces the closest so far (best = 0: none yet, Infinity)
RECURSIVE closestFrom(_, _, _)
closestFrom(c, id, best) ==
    IF id > Len(colorMapRows) - 1 THEN (IF best = 0 THEN 1 ELSE best)
    ELSE IF best = 0 \/ distanceSquared(c, id) < distanceSquared(c, best)
         THEN closestFrom(c, id + 1, id)
         ELSE closestFrom(c, id + 1, best)

\* no test for the #deface colour
getColorIdFromRGBCached_noDeface(c, cache) ==
    IF c[4] = 0 THEN [id |-> 0, cache |-> cache]
    ELSE IF rgbOf(c) \in DOMAIN cache THEN [id |-> cache[rgbOf(c)], cache |-> cache]
    ELSE LET k == closestFrom(c, 1, 0)
         IN  [id |-> k, cache |-> [x \in DOMAIN cache \cup {rgbOf(c)} |->
                                       IF x = rgbOf(c) THEN k ELSE cache[x]]]

\* the cache, keyed by "r,g,b", is asked before the alpha test
getColorIdFromRGBCached_cacheFirst(c, cache) ==
    IF rgbOf(c) \in DOMAIN cache THEN [id |-> cache[rgbOf(c)], cache |-> cache]
    ELSE IF c[4] = 0 \/ rgbOf(c) = Deface THEN [id |-> 0, cache |-> cache]
    ELSE LET k == closestFrom(c, 1, 0)
         IN  [id |-> k, cache |-> [x \in DOMAIN cache \cup {rgbOf(c)} |->
                                       IF x = rgbOf(c) THEN k ELSE cache[x]]]

\* one call with colorDistanceCache = cache: the ID returned and the cache after
getColorIdFromRGBCached(c, cache) ==
    IF c[4] = 0 THEN [id |-> 0, cache |-> cache]
    ELSE IF rgbOf(c) = Deface THEN [id |-> 0, cache |-> cache]
    ELSE IF rgbOf(c) \in DOMAIN cache THEN [id |-> cache[rgbOf(c)], cache |-> cache]
    ELSE LET k == closestFrom(c, 1, 0)
         IN  [id |-> k, cache |-> [x \in DOMAIN cache \cup {rgbOf(c)} |->
                                       IF x = rgbOf(c) THEN k ELSE cache[x]]]

EmptyCache == [x \in {} |-> 0]

\* the palette's own colours, the #deface colour and a colour off the palette,
\* each opaque and fully transparent
ColorInputs ==
    {colorMap[id] : id \in PaletteIds}
    \cup {<<colorMap[id][1], colorMap[id][2], colorMap[id][3], 0>> : id \in PaletteIds}
    \cup {<<Deface[1], Deface[2], Deface[3], a>> : a \in {0, 255}}
    \cup {<<colorMap[id][1] + 1, colorMap[id][2], colorMap[id][3], 255>> : id \in 1..MaxNear}

\* MaxCalls classifications in a row through one colorDistanceCache
ClassifyInputs ==
    [fn : {"getColorIdFromRGBCached"}, in : [1..MaxCalls -> ColorInputs],
     cache : {EmptyCache}, out : {<<>>}]

ApplyClassify ==
    /\ an.fn = "getColorIdFromRGBCached"
    /\ Len(an.out) < MaxCalls
    /\ LET r == getColorIdFromRGBCached(an.in[Len(an.out) + 1], an.cache)
       IN  an' = [an EXCEPT !.out = Append(an.out, r.id), !.cache = r.cache]
    /\ ev' = "getColorIdFromRGBCached"
    /\ UNCHANGED <<mgrVars, bmProtectMode, starting, task, placeVars, wt>>
    /\ net' = NoRequest

PureInputs == WaitTimeInputs \cup OwnedInputs \cup ClassifyInputs

InitPure ==
    /\ InitManager
    /\ task = [t \in Tasks |-> Off]
    /\ an \in PureInputs
    /\ ev = "init"

NextPure ==
    \/ ApplyCalculateWaitTime
    \/ ApplyGetOwnedColors
    \/ ApplyClassify

SpecPure == InitPure /\ [][NextPure]_vars

\* ---------------------------------------------------------------------
\* getNextPixels: the template diff, edge detection and ordering
\* ---------------------------------------------------------------------
\* The template is two tiles side by side across a chunk border: the last
\* column of chunk (0,0) and the first GridW - 1 columns of chunk (1,0), GridH
\* rows each.  A cell <<k, x, y>> is the logical pixel (x, y) of tile k, sampled
\* at bitmap offset (1 + 3x, 1 + 3y).  an.T is the set of cells whose template
\* alpha is not 0, an.paint their colour, an.L the cells whose live pixel is
\* black (the others are transparent), an.fetched whether fetchChunkData gave
\* the chunks, an.ownedColors the owned colour IDs, an.mode the text of
\* #bm-button-mode and an.count the number of pixels asked for.  an.out is what
\* the call returned, with the list prioritizedPixels and the keys of edgePixels
\* it was built from.  placedPixels is never added to, so no pixel is held
\* back by it.

ChunkSize == 1000

\* template.chunked in the order of Object.keys(chunkedBitmaps).sort()
sortedChunkKeys ==
    << [chunkX |-> 0, chunkY |-> 0, tilePixelX |-> ChunkSize - 1, tilePixelY |-> 0,
        width |-> 1, height |-> GridH],
       [chunkX |-> 1, chunkY |-> 0, tilePixelX |-> 0, tilePixelY |-> 0,
        width |-> GridW - 1, height |-> GridH] >>

\* the cells of tile k in the order of the loops over y and x
cellsOf(k) ==
    LET w == sortedChunkKeys[k].width
        h == sortedChunkKeys[k].height
    IN  [i \in 1..(w * h) |-> <<k, (i - 1) % w, (i - 1) \div w>>]

RECURSIVE cellsFrom(_)
cellsFrom(k) == IF k > Len(sortedChunkKeys) THEN <<>> ELSE cellsOf(k) \o cellsFrom(k + 1)

Cells == Range(cellsFrom(1))

Paints == {"black", "deface", "extra"}
paintRGBA(paint) ==
    CASE paint = "black" -> colorMap[1]
      [] paint = "deface" -> <<Deface[1], Deface[2], Deface[3], 255>>
      [] OTHER -> colorMap[ColorBits]

templateRGBA(in, cell) == IF cell \in in.T THEN paintRGBA(in.paint) ELSE colorMap[0]
currentRGBA(in, cell) == IF cell \in in.L THEN colorMap[1] ELSE colorMap[0]

pixelAt(cell, templateColorId) ==
    LET tile == sortedChunkKeys[cell[1]]
        finalLogicalX == tile.tilePixelX + cell[2]
        finalLogicalY == tile.tilePixelY + cell[3]
    IN  [chunkX |-> tile.chunkX, chunkY |-> tile.chunkY,
         finalLogicalX |-> finalLogicalX, finalLogicalY |-> finalLogicalY,
         templateColorId |-> templateColorId,
         globalX |-> tile.chunkX * ChunkSize + finalLogicalX,
         globalY |-> tile.chunkY * ChunkSize + finalLogicalY]

pixelKey(px) == <<px.chunkX, px.chunkY, px.finalLogicalX, px.finalLogicalY>>

\* templateBounds before any pixel: min = Infinity, max = -Infinity
NoBounds == [set |-> FALSE, minGlobalX |-> 0, maxGlobalX |-> 0, minGlobalY |-> 0, maxGlobalY |-> 0]

Max(a, b) == IF a >= b THEN a ELSE b

widen(b, px) ==
    IF ~b.set THEN [set |-> TRUE, minGlobalX |-> px.globalX, maxGlobalX |-> px.globalX,
                    minGlobalY |-> px.globalY, maxGlobalY |-> px.globalY]
    ELSE [set |-> TRUE,
          minGlobalX |-> Min(b.minGlobalX, px.globalX), maxGlobalX |-> Max(b.maxGlobalX, px.globalX),
          minGlobalY |-> Min(b.minGlobalY, px.globalY), maxGlobalY |-> Max(b.maxGlobalY, px.globalY)]

\* a failed fetch taken for a fetched chunk
currentChunk_anyway(in, chunkX, chunkY) == in.fetched

\* chunkCache.get(chunkKey): the bitmap fetchChunkData returned, or null (FALSE)
\* when its request failed, was answered with a non-success status, or the
\* canvas has no tile there
currentChunk(in, chunkX, chunkY) == in.fetched /\ <<chunkX, chunkY>> \notin in.failed

canEarlyTerminate_always(currentMode) == TRUE

canEarlyTerminate(currentMode) == currentMode # "Scan"

\* "Consider 50+ chunks as large", and sampling only below a count of 1000
LargeTemplate == 50
SampleBelow == 1000

\* whether chunks of the template are skipped; the templates here have
\* Len(sortedChunkKeys) tiles, which is not large
shouldSample(templateSize, currentMode, count) ==
    templateSize > LargeTemplate /\ canEarlyTerminate(currentMode) /\ count < SampleBelow

\* the loop over the sampled template pixels from position i of cells on, with
\* acc = [allTemplatePixels, templateBounds, allPixelsToPlace]; it ends at the
\* end of the template or at break outerLoop
RECURSIVE scanFrom(_, _, _, _)
scanFrom(in, cells, i, acc) ==
    IF i > Len(cells) THEN acc
    ELSE
      LET cell == cells[i]
          t == templateRGBA(in, cell)
      IN  IF t[4] = 0 THEN scanFrom(in, cells, i + 1, acc)
          ELSE
            LET template == getColorIdFromRGBCached(t, acc.colorDistanceCache)
                px == pixelAt(cell, template.id)
                seen == [acc EXCEPT !.allTemplatePixels = @ \cup {pixelKey(px)},
                                    !.templateBounds = widen(@, px),
                                    !.colorDistanceCache = template.cache]
                compared == /\ currentChunk(in, px.chunkX, px.chunkY)
                            /\ px.finalLogicalX >= 0 /\ px.finalLogicalX < ChunkSize
                            /\ px.finalLogicalY >= 0 /\ px.finalLogicalY < ChunkSize
                current == getColorIdFromRGBCached(currentRGBA(in, cell), template.cache)
            IN  IF Len(in.ownedColors) > 0 /\ template.id \notin Range(in.ownedColors)
                THEN scanFrom(in, cells, i + 1, seen)
                ELSE IF (compared /\ current.id = template.id) \/ pixelKey(px) \in in.placedPixels
                THEN scanFrom(in, cells, i + 1,
                              [seen EXCEPT !.colorDistanceCache =
                                               IF compared THEN current.cache ELSE template.cache])
                ELSE LET pushed == [seen EXCEPT !.allPixelsToPlace = Append(@, px),
                                                !.colorDistanceCache =
                                                    IF compared THEN current.cache ELSE template.cache]
                     IN  IF canEarlyTerminate(in.mode) /\ Len(pushed.allPixelsToPlace) >= in.count * 2
                         THEN pushed
                         ELSE scanFrom(in, cells, i + 1, pushed)

scanTemplate(in) ==
    scanFrom(in, cellsFrom(1), 1,
             [allTemplatePixels |-> {}, templateBounds |-> NoBounds, allPixelsToPlace |-> <<>>,
              colorDistanceCache |-> EmptyCache])

\* the key of the pixel at global (gx, gy); \div rounds down as Math.floor does
neighborKey(gx, gy) ==
    <<gx \div ChunkSize, gy \div ChunkSize,
      gx - (gx \div ChunkSize) * ChunkSize, gy - (gy \div ChunkSize) * ChunkSize>>

cardinalOffsets == {<<0, 0 - 1>>, <<0 - 1, 0>>, <<1, 0>>, <<0, 1>>}
diagonalOffsets == {<<0 - 1, 0 - 1>>, <<1, 0 - 1>>, <<0 - 1, 1>>, <<1, 1>>}

isEdgePixel(px, templateBounds, allTemplatePixels) ==
    \/ px.globalX = templateBounds.minGlobalX \/ px.globalX = templateBounds.maxGlobalX
    \/ px.globalY = templateBounds.minGlobalY \/ px.globalY = templateBounds.maxGlobalY
    \/ \E d \in cardinalOffsets :
          neighborKey(px.globalX + d[1], px.globalY + d[2]) \notin allTemplatePixels
    \/ \E d \in diagonalOffsets :
          neighborKey(px.globalX + d[1], px.globalY + d[2]) \notin allTemplatePixels

\* a comparator on globalX first
before_xFirst(a, b) == a.globalX < b.globalX \/ (a.globalX = b.globalX /\ a.globalY < b.globalY)

\* the comparator of the two sorts: globalY first, then globalX
before(a, b) == a.globalY < b.globalY \/ (a.globalY = b.globalY /\ a.globalX < b.globalX)

RECURSIVE insertSorted(_, _)
insertSorted(seq, px) ==
    IF seq = <<>> THEN <<px>>
    ELSE IF before(px, Head(seq)) THEN <<px>> \o seq
    ELSE <<Head(seq)>> \o insertSorted(Tail(seq), px)

RECURSIVE sortPixels(_)
sortPixels(seq) == IF seq = <<>> THEN <<>> ELSE insertSorted(sortPixels(Tail(seq)), Head(seq))

\* a shuffle that draws every position afresh
shuffles_redrawn(seq) == {[i \in 1..Len(seq) |-> seq[f[i]]] : f \in [1..Len(seq) -> 1..Len(seq)]}

\* every outcome of shuffleArray
shuffles(seq) ==
    {[i \in 1..Len(seq) |-> seq[f[i]]] :
        f \in {g \in [1..Len(seq) -> 1..Len(seq)] : \A i, j \in 1..Len(seq) : g[i] = g[j] => i = j}}

\* the pixels of allPixelsToPlace that go to edgePixels
edgePixelsOf(scanned) ==
    SelectSeq(scanned.allPixelsToPlace,
              LAMBDA px : isEdgePixel(px, scanned.templateBounds, scanned.allTemplatePixels))

nonEdgePixelsOf(scanned) ==
    SelectSeq(scanned.allPixelsToPlace,
              LAMBDA px : ~isEdgePixel(px, scanned.templateBounds, scanned.allTemplatePixels))

\* the orders prioritizedPixels can have
prioritizations(in, scanned) ==
    IF in.mode = "Scan"
    THEN {sortPixels(edgePixelsOf(scanned)) \o sortPixels(nonEdgePixelsOf(scanned))}
    ELSE {e \o n : e \in shuffles(edgePixelsOf(scanned)), n \in shuffles(nonEdgePixelsOf(scanned))}

\* the first count pixels, grouped by chunk in the order the chunks first appear
RECURSIVE groupFrom(_, _, _, _)
groupFrom(list, i, count, groups) ==
    IF i > Len(list) \/ i > count THEN groups
    ELSE LET px == list[i]
             entry == <<px.finalLogicalX, px.finalLogicalY, px.templateColorId>>
             at == {g \in 1..Len(groups) : groups[g][1] = <<px.chunkX, px.chunkY>>}
         IN  IF at = {}
             THEN groupFrom(list, i + 1, count, Append(groups, <<<<px.chunkX, px.chunkY>>, <<entry>>>>))
             ELSE LET g == CHOOSE x \in at : TRUE
                  IN  groupFrom(list, i + 1, count,
                                [groups EXCEPT ![g] = <<@[1], Append(@[2], entry)>>])

NoPixels == [prioritizedPixels |-> <<>>, edgePixels |-> {}, chunkGroups |-> <<>>, totalRemainingPixels |-> 0,
             totalPixels |-> 0]

\* the results getNextPixels can return on input in
getNextPixels(in) ==
    LET scanned == scanTemplate(in)
    IN  {[prioritizedPixels |-> list,
          edgePixels |-> {pixelKey(px) : px \in Range(edgePixelsOf(scanned))},
          chunkGroups |-> groupFrom(list, 1, in.count, <<>>),
          totalRemainingPixels |-> Len(scanned.allPixelsToPlace),
          totalPixels |-> Cardinality(scanned.allTemplatePixels)] :
            list \in prioritizations(in, scanned)}

PixelModes == {"Scan", "Random"}

\* every shape of a template in one owned colour over a canvas that is empty or
\* has at most MaxWrong pixels wrong
ShapeInputs ==
    UNION {[fn : {"getNextPixels"}, T : {T},
            L : {L \in SUBSET T : L = {} \/ Cardinality(T \ L) <= MaxWrong},
            paint : {"black"}, fetched : {TRUE}, failed : {{}}, placedPixels : {{}},
            ownedColors : {getOwnedColorsFromBitmap(0)}, mode : PixelModes,
            count : 0..MaxCount, done : {FALSE}, out : {NoPixels}] : T \in SUBSET Cells}

\* the full template in each paint, over an empty, a black and a partly black
\* canvas, fetched or not, with and without the first extra colour owned
ColourInputs ==
    [fn : {"getNextPixels"}, T : {Cells}, L : {{}, Cells, {cellsFrom(1)[1]}}, paint : Paints,
     fetched : BOOLEAN, failed : {{}}, placedPixels : {{}},
     ownedColors : {getOwnedColorsFromBitmap(m) : m \in {0, 1}}, mode : PixelModes, count : 0..MaxCount,
     done : {FALSE}, out : {NoPixels}]

\* templates of MaxCount + 1 pixels over an empty canvas, all of them asked for
BorderInputs ==
    [fn : {"getNextPixels"}, T : {T \in SUBSET Cells : Cardinality(T) = MaxCount + 1}, L : {{}},
     paint : {"black"}, fetched : {TRUE}, failed : {{}}, placedPixels : {{}},
     ownedColors : {getOwnedColorsFromBitmap(0)}, mode : PixelModes,
     count : {MaxCount + 1}, done : {FALSE}, out : {NoPixels}]

\* the full template over an empty and over a finished canvas, with the fetch of
\* one of its two chunks failed
FailedInputs ==
    [fn : {"getNextPixels"}, T : {Cells}, L : {{}, Cells}, paint : {"black"},
     fetched : {TRUE}, placedPixels : {{}},
     failed : {{<<sortedChunkKeys[k].chunkX, sortedChunkKeys[k].chunkY>>} : k \in 1..Len(sortedChunkKeys)},
     ownedColors : {getOwnedColorsFromBitmap(0)}, mode : PixelModes, count : 0..MaxCount,
     done : {FALSE}, out : {NoPixels}]

PixelInputs == ShapeInputs \cup ColourInputs \cup BorderInputs \cup FailedInputs

ApplyGetNextPixels ==
    /\ an.fn = "getNextPixels"
    /\ ~an.done
    /\ \E r \in getNextPixels(an) : an' = [an EXCEPT !.done = TRUE, !.out = r]
    /\ ev' = "getNextPixels"
    /\ UNCHANGED <<mgrVars, bmProtectMode, starting, task, placeVars, wt>>
    /\ net' = NoRequest

InitPixels ==
    /\ InitManager
    /\ task = [t \in Tasks |-> Off]
    /\ an \in PixelInputs
    /\ ev = "init"

NextPixels == ApplyGetNextPixels

SpecPixels == InitPixels /\ [][NextPixels]_vars

\* ---------------------------------------------------------------------
\* Two diff passes of one session, with a placement between them
\* ---------------------------------------------------------------------
\* an.sent holds the keys of the pixels of the batches placePixels has placed.
\* Nothing in this copy of the code adds to placedPixels: the set getNextPixels
\* consults is the one created empty with it.

SessionInputs ==
    UNION {[fn : {"getNextPixels"}, T : {Cells}, L : {{}, Cells, {cellsFrom(1)[1]}}, paint : Paints,
            fetched : BOOLEAN, failed : {{}}, placedPixels : {{}}, sent : {{}},
            ownedColors : {getOwnedColorsFromBitmap(m) : m \in {0, 1}}, mode : PixelModes,
            count : {n}, done : {FALSE}, out : {NoPixels}] : n \in 0..MaxCount}

\* placePixels has placed every batch of the last diff (each request answered
\* with success) and has slept its cycle delay: the next cycle's diff is due, on
\* tiles that still show the canvas as it was
PlacedAll ==
    /\ an.fn = "getNextPixels" /\ an.done
    /\ an.sent = {}
    /\ an.out.chunkGroups # <<>>
    /\ an' = [an EXCEPT !.done = FALSE,
                        !.sent = UNION {{<<grp[1][1], grp[1][2], grp[2][i][1], grp[2][i][2]>> :
                                            i \in 1..Len(grp[2])} :
                                        grp \in Range(an.out.chunkGroups)}]
    /\ ev' = "placed:all"
    /\ UNCHANGED <<mgrVars, bmProtectMode, starting, task, placeVars, wt>>
    /\ net' = NoRequest

InitSession ==
    /\ InitManager
    /\ task = [t \in Tasks |-> Off]
    /\ an \in SessionInputs
    /\ ev = "init"

NextSession ==
    \/ ApplyGetNextPixels
    \/ PlacedAll

SpecSession == InitSession /\ [][NextSession]_vars

\* ---------------------------------------------------------------------
\* Properties
\* ---------------------------------------------------------------------

\* the suspensions inside placeChunk, inside a cycle of the main loop, and inside
\* the repair of checkForDamage
PlacePcs == {"menuWait", "intercepting", "sending", "backoff", "fastSending", "fastBackoff"}
CyclePcs == {"analyzing", "waiting", "cycleSleep"} \cup PlacePcs
RepairPcs == {"chkRepair", "cycleSleep"} \cup PlacePcs
StopEvents == {"start:stop", "protect:stop"}
StartEvents == {"start:stop", "start:await", "start:await-running", "start:no-template"}

\* C1: the main loop and a repair of checkForDamage never place pixels at the same
\* time: no main loop is inside placeChunk while a damage check is inside placeChunk
C1_NeverPlaceTogether ==
    \A l \in Loops, c \in Checks : ~(task[l] \in PlacePcs /\ task[c] \in PlacePcs)

\* C2: at most one interceptFetchRequest interception is armed at any time, over
\* main-loop placements, repairs and 429 retries
C2_OneInterceptionArmed ==
    Cardinality({t \in Tasks : task[t] = "intercepting"}) <= 1

\* C3: immediately after stop() returns, from any state, isRunning is false and
\* the mode is IDLE
C3_StopLeavesIdle ==
    ev \in StopEvents => (~isRunning /\ mode = "IDLE")

\* stop() was called from start() while a repair was placing pixels
C3_Witness ==
    /\ ev = "start:stop"
    /\ \E c \in Checks : task[c] \in PlacePcs
    /\ ~isRunning /\ mode = "IDLE"

\* C4: after stop() returns, no protection interval started earlier is still
\* scheduled
C4_StopClearsTimers ==
    ev \in StopEvents => timers = {}

\* C5: start() called while isRunning is true performs stop() and launches nothing;
\* a start() goes on to launch only if isRunning was false (and the template valid)
\* when it was called, and runMainLoop is launched only by such a start()
C5_StartToggles ==
    [][/\ (ev' \in StartEvents /\ isRunning) =>
             (ev' = "start:stop" /\ ~isRunning' /\ starting' = starting /\ task' = task)
       /\ (starting' > starting) => (~isRunning /\ ev' = "start:await")
       /\ (ev' = "launch") => (starting > 0 /\ starting' = starting - 1)
       /\ (\E l \in Loops : task[l] = "idle" /\ task'[l] # "idle") => ev' = "launch"]_vars

\* start() was called while the manager was running with a loop inside a cycle: it
\* stopped the manager and no start() is on its way to a launch
C5_Witness ==
    /\ ev = "start:stop"
    /\ starting = 0
    /\ \E l \in Loops : task[l] \in CyclePcs

\* C6: an exception inside executeCycle never ends runMainLoop while isRunning is
\* true: the loop goes to its 10 s error sleep, from there back to the loop head,
\* and a loop ends only with isRunning false
C6_ExceptionNeverEndsLoop ==
    [][\A l \in Loops :
         /\ (ev' = "throw:loop" /\ task'[l] # task[l]) => task'[l] = "errSleep"
         /\ (task[l] = "errSleep" /\ task'[l] # "errSleep" /\ isRunning) =>
                task'[l] \in {"analyzing", "skipSleep"}
         /\ (task[l] # "idle" /\ task'[l] = "idle") => ~isRunning']_vars

\* a placement of the main loop threw while the manager was running, and the loop
\* is in its error sleep
C6_Witness ==
    /\ ev = "throw:loop"
    /\ isRunning
    /\ \E l \in Loops : task[l] = "errSleep"

\* C7: with charge data and P > 0 wrong pixels, analyzeSituation returns
\* WAIT_FOR_CHARGES with the wait time of the ChargeManager exactly when the charge
\* count is below the limit and P exceeds the floor of the count, and PLACE_PIXELS
\* with a non-empty schedule otherwise
C7_WaitOrPlace ==
    (an.done /\ an.hasCharges /\ an.P > 0) =>
        IF an.count < an.limit * Frac /\ an.P > an.count \div Frac
        THEN /\ an.action = "WAIT_FOR_CHARGES"
             /\ an.waitTime = calculateWaitTime(an.count, an.limit, an.P)
        ELSE /\ an.action = "PLACE_PIXELS"
             /\ an.scheduled >= 1 /\ an.scheduled <= an.P

\* the boundary: the count equals the limit and is below P, so the manager places
C7_Witness ==
    /\ an.done /\ an.hasCharges
    /\ an.count = an.limit * Frac /\ an.P > an.count \div Frac
    /\ an.action = "PLACE_PIXELS"

\* C8: with zero wrong pixels analyzeSituation returns COMPLETE when the protection
\* toggle is off, START_PROTECTION when it is on and the mode is not PROTECTING,
\* CONTINUE_PROTECTION when it is on and the mode is PROTECTING
C8_ZeroPixels ==
    (an.done /\ an.hasCharges /\ an.P = 0) =>
        /\ (~an.protect => an.action = "COMPLETE")
        /\ (an.protect /\ an.mode # "PROTECTING" => an.action = "START_PROTECTION")
        /\ (an.protect /\ an.mode = "PROTECTING" => an.action = "CONTINUE_PROTECTION")
        /\ an.action \notin {"PLACE_PIXELS", "WAIT_FOR_CHARGES"}

C8_Witness ==
    /\ an.done /\ an.hasCharges /\ an.P = 0
    /\ an.protect /\ an.mode = "PROTECTING"
    /\ an.action = "CONTINUE_PROTECTION"

\* C9: a cycle whose action is COMPLETE (protection off) leaves isRunning false and
\* the mode IDLE and ends the loop that ran it; a cycle that finds the template
\* complete with protection on leaves the mode PROTECTING with the manager's
\* interval scheduled
C9_Completion ==
    [][/\ \A l \in Loops :
            (ev' = "cycle:COMPLETE" /\ task[l] = "analyzing" /\ task'[l] # task[l]) =>
                (task'[l] = "idle" /\ ~isRunning' /\ mode' = "IDLE")
       /\ (ev' = "cycle:COMPLETE") => ~bmProtectMode
       /\ (ev' = "cycle:START_PROTECTION") =>
             (bmProtectMode /\ mode' = "PROTECTING" /\ protectionInterval' \in timers')]_vars

\* a running manager completed: its loop has ended and nothing is left running
C9_Witness ==
    /\ ev = "cycle:COMPLETE"
    /\ ~isRunning /\ mode = "IDLE"
    /\ \A l \in Loops : task[l] \in {"idle", "off"}

\* C10: at most one checkForDamage execution is in progress at any time
C10_OneCheckAtATime ==
    Cardinality({c \in Checks : task[c] \notin {"idle", "off"}}) <= 1
\* C11: an invocation of interceptFetchRequest rewrites at most one request, a
\* POST whose URL includes '/pixel/': a substitute is sent only by a wrapper that
\* was armed and is disarmed by that very step, a disarmed wrapper is never armed
\* again, and every other request made while a wrapper is armed reaches the
\* network as the page made it
C11_OneRequestRewritten ==
    [][ /\ \A w \in Wrappers :
             (wrapper[w] # NoWrapper /\ ~wrapper[w].active) => ~wrapper'[w].active
        /\ net'.via = "substitute" =>
             /\ net'.kind = "postPixel"
             /\ \E w \in Wrappers : /\ wrapper[w].active /\ ~wrapper'[w].active
                                    /\ wrapper[w].batch = net'.batch
        /\ net'.kind \in {"get", "postOther"} => net'.via = "page" /\ net'.batch = 0
      ]_vars

C11_Witness ==
    /\ net.via = "substitute"
    /\ \E w \in Wrappers : wrapper[w].owner # 0 /\ ~wrapper[w].active

\* an interception that a task still awaits and that has not fired
Armed(w) == wrapper[w].active /\ wrapper[w].owner # 0

\* C12: when an armed interception fires, unsafeWindow.fetch is the original
\* function again by the time the substitute is sent; and whenever an armed
\* interception ends (it fired, it failed on a missing token, its triggerAction
\* threw), unsafeWindow.fetch is what it was before that interception was armed
C12_FetchRestored ==
    [][ /\ net'.via = "substitute" => net'.fetchAtSend = net'.fn
        /\ \A w \in Wrappers :
             (Armed(w) /\ ~(wrapper'[w].active /\ wrapper'[w].owner # 0))
                => windowFetch' = Forward(wrapper, wrapper[w].orig)
      ]_vars

C12_Witness ==
    /\ ev = "trigger:failed"
    /\ windowFetch = 0
    /\ \E t \in Loops : task[t] = "errSleep"

\* C13: when the intercepted request has no token 't', the interception is
\* rejected: no request is sent in that step (a substitute always carries a
\* token), the main loop that armed it is in its catch with no chunk group done,
\* and after the error delay it is at the loop head, in a new cycle if the
\* autofill is still running
C13_NoToken ==
    [][ /\ ev' = "notoken:loop" =>
             /\ net' = NoRequest
             /\ \E t \in Loops : /\ task[t] = "intercepting"
                                 /\ task'[t] = "errSleep"
                                 /\ job'[t] = FirstJob
        /\ net'.via = "substitute" => net'.t \in Tokens
        /\ \A t \in Loops :
             (task[t] = "errSleep" /\ task'[t] # "errSleep")
                => task'[t] = LoopNext(isRunning, protectionRepairInProgress)
      ]_vars

C13_Witness ==
    /\ ev = "notoken:loop"
    /\ net = NoRequest
    /\ \E t \in Loops : task[t] = "errSleep"

\* C14: a request of the fast path is sent only for a chunk group that is not the
\* first, with a cached context younger than contextMaxAge; it carries the
\* captured token and the other captured fields of the body, it is sent by a task
\* that did not go through openPaintMenu, with the script's own fetch, and it
\* installs no wrapper on unsafeWindow.fetch
C14_FastPath ==
    [][ net'.via = "cached" =>
          /\ cachedRequestContext' # NoContext
          /\ cachedRequestContext'.fresh
          /\ net'.batch > 1
          /\ net'.kind = "postPixel"
          /\ net'.t = cachedRequestContext'.token
          /\ net'.extra = cachedRequestContext'.extra
          /\ net'.fn = 0
          /\ windowFetch' = windowFetch
          /\ \A w \in Wrappers : wrapper'[w].active => wrapper[w].active
          /\ \E t \in Tasks : /\ task'[t] = "fastSending"
                              /\ task[t] \in {"sending", "fastSending", "fastBackoff"}
                              /\ job'[t].batch = net'.batch
      ]_vars

C14_Witness ==
    /\ net.via = "cached"
    /\ net.t = MaxToken
    /\ net.extra
    /\ \E t \in Tasks : task[t] = "fastSending" /\ job[t].batch = 2

\* C15: a 401/403 answer to a request of the fast path clears the cached context,
\* and the task goes on, in the same placeChunk call, to openPaintMenu and the
\* slow path for the same chunk group (retryCount 0, no onContextCaptured); the
\* interception armed from there substitutes that chunk group
C15_AuthFallback ==
    [][ /\ ev' = "fast:auth" =>
             /\ cachedRequestContext' = NoContext
             /\ \E t \in Tasks : /\ task[t] = "fastSending"
                                 /\ task'[t] = "menuWait"
                                 /\ job'[t] = [job[t] EXCEPT !.retry = 0, !.cb = FALSE]
        /\ \A t \in Tasks :
             (task[t] = "menuWait" /\ task'[t] = "intercepting") =>
                \E w \in Wrappers : /\ wrapper'[w].active
                                    /\ wrapper'[w].owner = t
                                    /\ wrapper'[w].batch = job[t].batch
                                    /\ windowFetch' = w
      ]_vars

C15_Witness ==
    /\ ev = "fast:auth"
    /\ cachedRequestContext = NoContext
    /\ \E t \in Tasks : task[t] = "menuWait" /\ job[t].batch = 2 /\ ~job[t].cb

\* C16: 30 s after a 429, on the slow path and on the fast path alike, the task
\* places the same chunk group again on the path it was on, with the attempt
\* number one higher (unless that attempt throws before it sends anything)
C16_RetrySamePath ==
    [][ \A t \in Tasks :
          /\ (task[t] = "backoff" /\ task'[t] \notin {"backoff", Thrown(t)}) =>
                /\ task'[t] = "intercepting"
                /\ job'[t].batch = job[t].batch
                /\ job'[t].retry = job[t].retry + 1
          /\ (task[t] = "fastBackoff" /\ task'[t] \notin {"fastBackoff", Thrown(t)}) =>
                /\ task'[t] = "fastSending"
                /\ job'[t].batch = job[t].batch
                /\ job'[t].retry = job[t].retry + 1
      ]_vars

\* C17: an answer whose status is neither a success nor 429 (nor, on the fast
\* path, 401/403) makes the placement of the chunk group fail with an error, on
\* the slow path and on the fast path: the task that awaited it is in the catch
\* of its caller
C17_BadStatusFails ==
    [][ \A t \in Tasks :
          /\ (task[t] = "sending" /\ ev' = "slow:err") => task'[t] = Thrown(t)
          /\ (task[t] = "fastSending" /\ ev' = "fast:err") => task'[t] = Thrown(t)
      ]_vars

\* C18: the request context is cached only once the placement of the slow path
\* has succeeded: it becomes set in the step that receives the success, and an
\* answer that is not a success leaves no cached context
C18_CachedAfterSuccess ==
    [][ /\ (cachedRequestContext = NoContext /\ cachedRequestContext' # NoContext)
              => ev' = "slow:ok"
        /\ ev' \in {"slow:err", "slow:429"} => cachedRequestContext' = NoContext
      ]_vars

\* the steps of waitForCharges that start at its loop head
WakeEvents == {"wait:return", "wait:sleep", "wait:refresh"}

\* C19: a change of the charge-limit input takes effect within the wait.  When an
\* iteration has read a changed limit and the wait goes on, the remaining wait is
\* at most what the new limit asks for if the limit was lowered, and at least
\* that if it was raised
C19_LimitChangeTakesEffect ==
    [][ (ev' = "wait:sleep" /\ wt'.input = wt'.chargeLimit) =>
          LET need == calculateWaitTimeAt(wt'.count, wt'.chargeLimit, wt'.P, WaitRecharge)
          IN  /\ wt'.change = "lowered" => wt'.rem <= need
              /\ wt'.change = "raised" => wt'.rem >= need
      ]_vars

\* C20: once isRunning is false, waitForCharges sleeps at most 1 s more: no sleep
\* lasts longer than that with isRunning false, and a wake-up that finds
\* isRunning false returns, whatever time remained
C20_StopEndsWait ==
    /\ [](wt.slept <= PollSleep)
    /\ [][ (wt.phase = "sleeping" /\ ev' \in WakeEvents /\ ~isRunning) =>
              /\ wt'.phase = "returned"
              /\ task'[1] = Idle
         ]_vars

C20_Witness ==
    /\ wt.phase = "returned"
    /\ ev = "wait:return"
    /\ ~isRunning
    /\ wt.rem > PollSleep
    /\ wt.count < wt.chargeLimit * Frac

\* C21: calculateWaitTime returns ceil((1 - frac(count)) * rechargeTime) when
\* need = min(pixelsNeeded, chargeLimit) - floor(count) is at most 1, and that
\* plus (need - 1) * rechargeTime otherwise.  The ceiling first is stated by its
\* defining inequalities: first >= x > first - 1 with x in units of 1/Frac ms.
C21_WaitTimeFormula ==
    (an.fn = "calculateWaitTime" /\ an.done) =>
        LET rechargeTime == IF an.rechargeTime = 0 THEN RechargeTime ELSE an.rechargeTime
            chargeLimit == IF an.input = 0 THEN an.max ELSE an.input
            target == IF an.P < chargeLimit THEN an.P ELSE chargeLimit
            need == target - (an.count \div Frac)
            x == (Frac - (an.count % Frac)) * rechargeTime
            first == IF need <= 1 THEN an.out ELSE an.out - (need - 1) * rechargeTime
        IN  /\ first * Frac >= x
            /\ (first - 1) * Frac < x

\* a wait for two more charges from a half-recharged one, at an odd rechargeTime
C21_Witness ==
    /\ an.fn = "calculateWaitTime" /\ an.done
    /\ an.count % Frac # 0
    /\ an.rechargeTime = WaitRecharge + 1
    /\ Min(an.P, chargeLimitOf(an.input, an.max)) - (an.count \div Frac) = 2
    /\ an.out > chargeRateOf(an.rechargeTime)

\* C26: getOwnedColorsFromBitmap(m) is, sorted ascending, exactly 0..31 together
\* with 32 + i for every bit i set in m read as an unsigned 32-bit number; the
\* bits are stated by their weights: bit 31 is the sign, the others sum to the
\* low 31 bits.  m = 0 gives 0..31, m = 1 gives 0..32, m = -1 gives 0..63.
C26_OwnedColors ==
    (an.fn = "getOwnedColorsFromBitmap" /\ an.done) =>
        LET out == an.out
            ids == {out[k] : k \in 1..Len(out)}
            bits == {id - 32 : id \in {x \in ids : x >= 32}}
            RECURSIVE weight(_)
            weight(B) == IF B = {} THEN 0
                         ELSE LET b == CHOOSE x \in B : TRUE IN 2 ^ b + weight(B \ {b})
        IN  /\ \A k \in 1..(Len(out) - 1) : out[k] < out[k + 1]
            /\ 0..31 \subseteq ids
            /\ ids \subseteq 0..63
            /\ (63 \in ids) <=> (an.m < 0)
            /\ weight(bits \ {31}) = IF an.m < 0 THEN (an.m + 2147483647) + 1 ELSE an.m
            /\ (an.m = 0) => out = [k \in 1..32 |-> k - 1]
            /\ (an.m = 1) => out = [k \in 1..33 |-> k - 1]
            /\ (an.m = 0 - 1) => out = [k \in 1..64 |-> k - 1]

\* the list for m = -1 has been computed
C26_Witness ==
    /\ an.fn = "getOwnedColorsFromBitmap" /\ an.done
    /\ an.m = 0 - 1
    /\ Len(an.out) = 64

\* C27: for every palette ID 0..63, classifying the ID's own RGBA returns that
\* ID, whatever was classified before through the same cache.
C27_PaletteFixedPoint ==
    (an.fn = "getColorIdFromRGBCached") =>
        \A k \in 1..Len(an.out) : \A id \in 0..63 :
            an.in[k] = colorMap[id] => an.out[k] = id

\* black, then transparent (same r,g,b, alpha 0), classified through one cache
C27_Witness ==
    /\ an.fn = "getColorIdFromRGBCached"
    /\ Len(an.out) = 2
    /\ an.in[1] = colorMap[1] /\ an.in[2] = colorMap[0]
    /\ an.out = <<1, 0>>

\* the canvas position, template colour and live colour of a cell, read off the
\* input without the classifier or the scan
globalOf(cell) == <<(IF cell[1] = 1 THEN 999 ELSE 1000) + cell[2], cell[3]>>
keyOf(cell) == <<cell[1] - 1, 0, (IF cell[1] = 1 THEN 999 ELSE 0) + cell[2], cell[3]>>
wantedId == IF an.paint = "black" THEN 1 ELSE IF an.paint = "deface" THEN 0 ELSE 32
liveId(cell) == IF cell \in an.L THEN 1 ELSE 0
wrongCells ==
    {c \in an.T : /\ \E k \in 1..Len(an.ownedColors) : an.ownedColors[k] = wantedId
                  /\ (~an.fetched \/ <<c[1] - 1, 0>> \in an.failed \/ liveId(c) # wantedId)}
\* edge by the rule: on an extent of the whole template, or one of the eight
\* neighbours outside the template
onEdge(cell) ==
    LET at == {globalOf(c) : c \in an.T}
        g == globalOf(cell)
    IN  \/ \A q \in at : g[1] <= q[1]
        \/ \A q \in at : g[1] >= q[1]
        \/ \A q \in at : g[2] <= q[2]
        \/ \A q \in at : g[2] >= q[2]
        \/ \E dx \in {0 - 1, 0, 1}, dy \in {0 - 1, 0, 1} :
              <<dx, dy>> # <<0, 0>> /\ <<g[1] + dx, g[2] + dy>> \notin at
Pixels == an.out.prioritizedPixels
\* the pixels handed to placement: <<chunk, <<logicalX, logicalY, colour ID>>>>
Scheduled ==
    UNION {{<<grp[1], grp[2][i]>> : i \in 1..Len(grp[2])} : grp \in Range(an.out.chunkGroups)}
cellAt(chunk, entry) == CHOOSE c \in Cells : keyOf(c) = <<chunk[1], chunk[2], entry[1], entry[2]>>
Ran == an.fn = "getNextPixels" /\ an.done

\* C22 as stated: no pixel scheduled for placement has desired colour ID 0, also
\* when the template pixel has the #deface colour over a non-transparent live
\* pixel.
C22_NeverColourZero ==
    Ran => \A e \in Scheduled : e[2][3] # 0

\* C22, amended: a scheduled pixel has colour ID 0 exactly when its template
\* pixel has the #deface colour, and such a pixel is scheduled only where the live
\* pixel is not transparent or the chunk could not be fetched.
C22_ZeroOnlyForDeface ==
    Ran => \A e \in Scheduled :
              /\ (e[2][3] = 0) <=> (an.paint = "deface")
              /\ (e[2][3] = 0) => (~an.fetched \/ cellAt(e[1], e[2]) \in an.L)

\* a #deface template pixel over a black live pixel is scheduled with colour 0
C22_Witness ==
    /\ Ran /\ an.paint = "deface" /\ an.fetched
    /\ \E e \in Scheduled : e[2][3] = 0 /\ cellAt(e[1], e[2]) \in an.L

\* C23: in Scan mode the list is every wrong pixel once, the edge pixels sorted
\* ascending by (globalY, globalX) followed by the interior pixels sorted the
\* same way.  The list is thereby a function of the input, so repeated runs on
\* identical input give identical lists.
C23_ScanOrder ==
    (Ran /\ an.mode = "Scan") =>
        /\ Len(Pixels) = Cardinality(wrongCells)
        /\ {<<px.globalX, px.globalY>> : px \in Range(Pixels)} = {globalOf(c) : c \in wrongCells}
        /\ \A i, j \in 1..Len(Pixels) : i < j =>
              LET a == Pixels[i]
                  b == Pixels[j]
                  ea == \E c \in wrongCells : globalOf(c) = <<a.globalX, a.globalY>> /\ onEdge(c)
                  eb == \E c \in wrongCells : globalOf(c) = <<b.globalX, b.globalY>> /\ onEdge(c)
              IN  \/ ea /\ ~eb
                  \/ /\ ea = eb
                     /\ (a.globalY < b.globalY \/ (a.globalY = b.globalY /\ a.globalX < b.globalX))

\* a Scan-mode list with edge pixels on several rows and an interior pixel
C23_Witness ==
    /\ Ran /\ an.mode = "Scan"
    /\ Len(Pixels) >= 4
    /\ \E c \in wrongCells : ~onEdge(c)
    /\ \E i, j \in 1..Len(Pixels) : Pixels[i].globalY # Pixels[j].globalY

C25_EdgeRule ==
    Ran =>
        /\ \A px \in Range(Pixels) :
              (pixelKey(px) \in an.out.edgePixels) <=>
                  \E c \in an.T : globalOf(c) = <<px.globalX, px.globalY>> /\ onEdge(c)
        /\ (an.T = Cells /\ wrongCells = Cells /\ GridW = 3 /\ GridH = 3) =>
              /\ Cardinality(an.out.edgePixels) = 8
              /\ Len(Pixels) = 9
        /\ (Cardinality(an.T) = 1 /\ wrongCells = an.T) =>
              /\ Cardinality(an.out.edgePixels) = 1
              /\ Len(Pixels) = 1

\* C28: at most one runMainLoop instance is active at any time, also when the
\* manager is stopped and started again while the previous loop is inside a sleep
\* or an in-flight operation.
C28_OneMainLoop ==
    Cardinality({l \in Loops : task[l] \notin {Idle, Off}}) <= 1

\* C29: at most one protection timer is scheduled at any time, after any
\* sequence of cycles, repairs, re-entries, stops and restarts.
C29_OneProtectionTimer ==
    Cardinality(timers) <= 1

\* C30: state.mode is never FILLING or WAITING_CHARGES while isRunning is false.
C30_ModeIdleWhenStopped ==
    ~isRunning => mode \notin {"FILLING", "WAITING_CHARGES"}

\* C31: every interceptFetchRequest invocation eventually settles and leaves the
\* page's fetch restored, also when triggerAction completes and the page issues
\* no matching POST to the pixel path.
C31_InterceptionSettles ==
    \A t \in Tasks : (task[t] = "intercepting") ~> (task[t] # "intercepting" /\ windowFetch = 0)

\* C32: once stop() has set isRunning false, no new pixel-placement request is
\* sent: no further chunk batch of the placement under way and no retry after a
\* 429 backoff.
C32_NoRequestAfterStop ==
    [][~isRunning => net'.via \notin {"substitute", "cached"}]_vars

C34_ReturnsOnTime ==
    /\ [](wt.phase = "returned" => an.elapsed <= an.waitTime + PollSleep)
    /\ [][wt'.rem <= wt.rem]_vars

C36_ScanExhaustive ==
    (Ran /\ an.mode = "Scan") =>
        /\ {pixelKey(Pixels[i]) : i \in 1..Len(Pixels)} = {keyOf(c) : c \in wrongCells}
        /\ Len(Pixels) = Cardinality(wrongCells)
        /\ an.out.totalRemainingPixels = Cardinality(wrongCells)
        /\ \A n \in 0..(LargeTemplate + 1) : ~shouldSample(n, an.mode, an.count)

\* a Scan diff that lists more wrong pixels than twice the count asked for
C36_ScanBeyondBudget ==
    /\ Ran /\ an.mode = "Scan"
    /\ an.count = 1
    /\ Cardinality(wrongCells) > 2 * an.count
    /\ Len(Pixels) = Cardinality(wrongCells)

\* the chunk batches in output order, as <<chunk, entry>> pairs
RECURSIVE concatenated(_)
concatenated(groups) ==
    IF groups = <<>> THEN <<>>
    ELSE [i \in 1..Len(Head(groups)[2]) |-> <<Head(groups)[1], Head(groups)[2][i]>>]
         \o concatenated(Tail(groups))

\* C37: the chunk batches returned for a cycle, concatenated in output order, are
\* the first min(N, total) pixels of the prioritized list in the same order.
C37_BatchesKeepOrder ==
    Ran =>
        concatenated(an.out.chunkGroups) =
            [i \in 1..Min(an.count, Len(Pixels)) |->
                <<<<Pixels[i].chunkX, Pixels[i].chunkY>>,
                  <<Pixels[i].finalLogicalX, Pixels[i].finalLogicalY, Pixels[i].templateColorId>>>>]

\* the cells the scan went through: all of them, or in a mode that terminates
\* early those up to the pixel whose push ended the scan
position(cell) == CHOOSE i \in 1..Len(cellsFrom(1)) : cellsFrom(1)[i] = cell
ScanBroke == canEarlyTerminate(an.mode) /\ Len(Pixels) > 0 /\ Len(Pixels) >= an.count * 2
Sampled ==
    IF ~ScanBroke THEN Cells
    ELSE LET at == {position(cellAt(<<Pixels[i].chunkX, Pixels[i].chunkY>>,
                                    <<Pixels[i].finalLogicalX, Pixels[i].finalLogicalY>>)) :
                        i \in 1..Len(Pixels)}
         IN  {c \in Cells : \E m \in at : position(c) <= m}

C39_PlacedPixelsExcluded ==
    (an.fn = "getNextPixels" /\ an.done /\ an.sent # {}) =>
        \A i \in 1..Len(Pixels) : pixelKey(Pixels[i]) \notin an.sent

\* C40: openPaintMenu terminates; it waits for the paint button at most 100
\* times, and when the button is still absent or disabled after that it throws:
\* then no interception is armed and no placement request is sent for the batch.
C40_MenuTerminates ==
    /\ \A t \in Tasks : (task[t] = "menuWait") ~> (task[t] # "menuWait")
    /\ [](an.waitCount <= MaxWaitTime)
    /\ [][\A t \in Tasks :
            (task[t] = "menuWait" /\ task'[t] # "menuWait" /\ an'.element # "ready")
                => (an.waitCount = MaxWaitTime /\ an'.result = "thrown")]_vars
    /\ [][an'.result = "thrown" =>
            /\ net'.via \notin {"substitute", "cached"}
            /\ ev' # "arm"
            /\ windowFetch' = windowFetch
            /\ \A w \in Wrappers : wrapper'[w].active => wrapper[w].active]_vars

\* the button was still absent after the last wait, and openPaintMenu has thrown
C40_ThrownAfterBound ==
    /\ an.result = "thrown" /\ an.element = "absent"
    /\ task[1] = "errSleep"
    /\ windowFetch = 0

====
